---- MODULE Spec2Model ----
(***************************************************************************)
(* State-machine model of the load coordinator (src/src/engine.rs), the    *)
(* live-subtitle windower and worker (src/src/subtitle.rs) and the threads *)
(* that transcribe (voice_session.rs, transcribe_file.rs, ime.rs).         *)
(***************************************************************************)
EXTENDS Naturals, Integers, Sequences, FiniteSets, TLC

(* ------------------------------ bounds --------------------------------- *)
NThreads == 3
MaxWaitTicks == 3
MaxPushes == 3
MaxSessions == 2
MaxChunks == 2
NAssets == 2
MaxRuns == 3

(* --------------------------- program constants ------------------------- *)
\* ime.rs:170  Duration::from_secs(120)
LOAD_WAIT_TIMEOUT_SECS == 120
\* seconds of wall-clock time one Tick step stands for
TickSecs == 60

\* subtitle.rs:42   update_interval: 32000
DEFAULT_UPDATE_INTERVAL == 32000
\* subtitle.rs:157  if buffer_len > 48000
OVERLAP_SAMPLES == 48000
\* subtitle.rs:148  / 16000.0
SAMPLE_RATE == 16000
\* subtitle.rs:81   last_committed_end - 0.05, in samples (0.05 * 16000)
MARGIN_SAMPLES == SAMPLE_RATE \div 20
\* subtitle.rs:94   start_time + 2.0, in samples (2.0 * 16000)
NOMINAL_SAMPLES == 2 * SAMPLE_RATE
\* subtitle.rs:152  rms > 0.002, in thousandths
SILENCE_RMS_MILLI == 2

Threads == 1..NThreads

\* The files of the asset directory, in the order AssetManager.list returns them.
Assets == 1..NAssets

\* The loader threads that do not go through the coordinator: the one spawned by the IME's
\* initNative (ime.rs:52-88) and the one spawned by MainActivity's (main_activity.rs:22-48).
DirectLoaders == {"ime", "main"}
Sessions == 1..MaxSessions

\* The two entry points of the coordinator.
Kinds == {"ensure_loaded", "ensure_loaded_from_thread"}

\* engine.rs:19-29  enum LoadState
Idle == [tag |-> "Idle", reason |-> ""]
Loading == [tag |-> "Loading", reason |-> ""]
Done == [tag |-> "Done", reason |-> ""]
Failed(m) == [tag |-> "Failed", reason |-> m]

ASSET_ERROR == "Asset error"
MODEL_ERROR == "Model error"
ATTACH_ERROR == "Failed to attach JNI thread"
WAIT_ERROR == "Model failed to load"

VARIABLES
  GLOBAL_ENGINE,   \* engine.rs:12  0 = None, k > 0 = the k-th engine instance installed
  installs,        \* number of engine instances ever stored in GLOBAL_ENGINE
  LOAD_STATE,      \* engine.rs:16  the LoadState behind the coordination mutex
  stateLock,       \* holder of the LOAD_STATE mutex (0 = free)
  marker,          \* assets.rs:8   the .extraction_complete file exists
  pc,              \* per caller thread: position inside ensure_loaded
  kind,            \* per caller thread: which entry point it called
  result,          \* per caller thread: "none", "Ok" or the Err message of the current call
  pending,         \* per loader thread: the `result` local of the claim arm
  notes,           \* per caller thread: statuses delivered to its notifier in the current call
  lateCall,        \* some call started when LOAD_STATE was no longer Idle
  claimedFrom,     \* per caller thread: LoadState tag it replaced by Loading ("" if it did not claim)
  ranLoad,         \* per caller thread: do_load was entered in the current call
  waited,          \* per caller thread: seconds spent so far in cvar.wait
  loads,           \* number of do_load executions started
  failures,        \* number of load episodes that ended in Failed
  teng,            \* per caller thread: the engine instance a one-shot thread got from get_engine
  dpc,             \* per direct loader thread (ime.rs:52, main_activity.rs:22): its position
  dnotes,          \* per direct loader thread: statuses it delivered
  MODEL_LOADING,   \* ime.rs:13  AtomicBool
  inference,       \* who is inside transcribe_samples, and on which engine instance
  LIVE_STATE,      \* subtitle.rs:20  Option<LiveSubtitleState>, and the samples heard so far
  sessions,        \* number of LiveSubtitleService.initNative calls so far
  pushes,          \* number of pushAudio calls so far
  chan,            \* per session: the windows in the crossbeam channel, oldest first
  enq,             \* per session: windows sent so far; a window's id is its send number
  wpc,             \* per session: position of the worker thread
  wcur,            \* per session: the window the worker holds
  weng,            \* per session: the engine instance the worker got from get_engine
  last_committed_end, \* per session: the worker's commit cursor, in samples
  wlast,           \* per session: what the worker did with the window it finished last
  RECOG_STATE,     \* recognize.rs:9  Option<VoiceSessionState>: stream and audio_buffer
  vstatus,         \* statuses the last voice-session call sent itself
  captured,        \* number of chunks the capture callback has delivered so far
  tbuf,            \* per thread: the samples moved into a transcription thread
  model_dir,       \* assets.rs:25  per asset: its file in the model directory, as the steps
                   \* of extract_assets leave it (not followed where the call is one step)
  epc,             \* position of the thread inside extract_assets
  asset,           \* assets.rs:88  index of the asset being copied
  extracted,       \* what the last extract_assets call returned: "none", "Ok" or "Err"
  runs,            \* number of extract_assets calls so far
  FILE_STATE,      \* transcribe_file.rs:17  STATE, an Option<TranscribeFileState>: TRUE = Some
  fromFile,        \* the threads spawned by transcribeAudio (transcribe_file.rs:124)
  fstatus          \* statuses the last transcribeAudio call sent itself

engineVars == <<GLOBAL_ENGINE, installs>>

procVars == <<teng, dpc, dnotes, MODEL_LOADING>>

coordVars == <<LOAD_STATE, stateLock, marker, pc, kind, result, pending, notes, lateCall,
               claimedFrom, ranLoad, waited, loads, failures, procVars>>

workerVars == <<chan, enq, wpc, wcur, weng, last_committed_end, wlast>>

subVars == <<inference, LIVE_STATE, sessions, pushes, workerVars>>

voiceVars == <<RECOG_STATE, vstatus, captured, tbuf>>

assetVars == <<model_dir, epc, asset, extracted, runs>>

fileVars == <<FILE_STATE, fromFile, fstatus>>

vars == <<engineVars, coordVars, subVars, voiceVars, assetVars, fileVars>>

(* ------------------------------ engine.rs ------------------------------ *)

\* engine.rs:35-37
is_engine_loaded == GLOBAL_ENGINE # 0

\* engine.rs:31-33
get_engine == GLOBAL_ENGINE

\* engine.rs:39-48 (ensure_loaded) and the `if let Ok(env) = attach` wrappers of
\* ensure_loaded_from_thread: the status reaches the notifier iff the thread is attached.
notify_status(t, msg, attached) ==
  IF attached THEN [notes EXCEPT ![t] = Append(@, msg)] ELSE notes

\* ensure_loaded borrows an attached env; ensure_loaded_from_thread attaches per notification.
AttachOutcomes(t) == IF kind[t] = "ensure_loaded" THEN {TRUE} ELSE {TRUE, FALSE}

ErrorStatus(m) == "Error: " \o m

\* subtitle.rs:20  LIVE_STATE holds None.
NoLiveState == [some |-> FALSE, session |-> 0, buffer |-> << >>, total_samples |-> 0,
                last_process_sample |-> 0, update_interval |-> 0, heard |-> << >>]

\* A state that keeps counting samples from where the previous session stopped.
FreshLiveState_Carryover(s) == [some |-> TRUE, session |-> s, buffer |-> << >>,
                                total_samples |-> LIVE_STATE.total_samples,
                                last_process_sample |-> 0,
                                update_interval |-> DEFAULT_UPDATE_INTERVAL,
                                heard |-> << >>]

\* subtitle.rs:36-42  the state initNative stores; buffers are run-length coded:
\* a sequence of <<number of samples, amplitude in thousandths>>. The field heard is
\* not in the source: it keeps every sample pushed into the session, for reference.
FreshLiveState(s) == [some |-> TRUE, session |-> s, buffer |-> << >>, total_samples |-> 0,
                      last_process_sample |-> 0,
                      update_interval |-> DEFAULT_UPDATE_INTERVAL,
                      heard |-> << >>]

\* recognize.rs:9  RECOG_STATE holds None.
NoVoiceSession == [some |-> FALSE, stream |-> FALSE, audio_buffer |-> << >>]

\* voice_session.rs:57-63  the state init_session builds: no stream, an empty buffer.
FreshVoiceSession == [some |-> TRUE, stream |-> FALSE, audio_buffer |-> << >>]

\* The worker holds no window.
NoWindow == [id |-> 0, samples |-> << >>, start_time |-> 0]

\* The worker has finished no window yet.
NoOutcome == [id |-> 0, start_time |-> 0, cursor |-> 0, ok |-> FALSE, timed |-> FALSE,
              segments |-> << >>, text |-> << >>, emitted |-> << >>, called |-> FALSE,
              status |-> << >>]

Init ==
  /\ GLOBAL_ENGINE = 0
  /\ installs = 0
  /\ LOAD_STATE = Idle
  /\ stateLock = 0
  /\ marker \in BOOLEAN
  /\ pc = [t \in Threads |-> "idle"]
  /\ kind = [t \in Threads |-> "ensure_loaded"]
  /\ result = [t \in Threads |-> "none"]
  /\ pending = [t \in Threads |-> "none"]
  /\ notes = [t \in Threads |-> << >>]
  /\ lateCall = FALSE
  /\ claimedFrom = [t \in Threads |-> ""]
  /\ ranLoad = [t \in Threads |-> FALSE]
  /\ waited = [t \in Threads |-> 0]
  /\ loads = 0
  /\ failures = 0
  /\ teng = [t \in Threads |-> 0]
  /\ dpc = [d \in DirectLoaders |-> "none"]
  /\ dnotes = [d \in DirectLoaders |-> << >>]
  /\ MODEL_LOADING = FALSE
  /\ inference = {}
  /\ LIVE_STATE = NoLiveState
  /\ sessions = 0
  /\ pushes = 0
  /\ chan = [s \in Sessions |-> << >>]
  /\ enq = [s \in Sessions |-> 0]
  /\ wpc = [s \in Sessions |-> "none"]
  /\ wcur = [s \in Sessions |-> NoWindow]
  /\ weng = [s \in Sessions |-> 0]
  /\ last_committed_end = [s \in Sessions |-> 0]
  /\ wlast = [s \in Sessions |-> NoOutcome]
  /\ RECOG_STATE = NoVoiceSession
  /\ vstatus = << >>
  /\ captured = 0
  /\ tbuf = [t \in Threads |-> << >>]
  /\ model_dir = [a \in Assets |-> "absent"]
  /\ epc = "idle"
  /\ asset = 0
  /\ extracted = "none"
  /\ runs = 0
  /\ FILE_STATE = FALSE
  /\ fromFile = {}
  /\ fstatus = << >>

\* A thread enters ensure_loaded (engine.rs:59) or ensure_loaded_from_thread (engine.rs:118).
\* Every caller in the source is a thread spawned for one call (voice_session.rs:69-71,
\* 168-179, transcribe_file.rs:67-69, 124-136); threads are numbered in order of arrival.
Call(t) ==
  /\ pc[t] = "idle"
  /\ \A u \in Threads : u < t => pc[u] # "idle"
  /\ \E k \in Kinds : kind' = [kind EXCEPT ![t] = k]
  /\ pc' = [pc EXCEPT ![t] = "fast"]
  /\ result' = [result EXCEPT ![t] = "none"]
  /\ pending' = [pending EXCEPT ![t] = "none"]
  /\ notes' = [notes EXCEPT ![t] = << >>]
  /\ lateCall' = (lateCall \/ LOAD_STATE # Idle)
  /\ claimedFrom' = [claimedFrom EXCEPT ![t] = ""]
  /\ ranLoad' = [ranLoad EXCEPT ![t] = FALSE]
  /\ waited' = [waited EXCEPT ![t] = 0]
  /\ UNCHANGED <<GLOBAL_ENGINE, installs, LOAD_STATE, stateLock, marker, loads, failures>>
  /\ UNCHANGED <<subVars, procVars>>
  /\ UNCHANGED voiceVars
  /\ UNCHANGED assetVars
  /\ UNCHANGED fileVars

\* engine.rs:60-64 / 122-128: the unsynchronized fast path.
FastPath(t) ==
  /\ pc[t] = "fast"
  /\ IF is_engine_loaded
       THEN /\ \E a \in AttachOutcomes(t) : notes' = notify_status(t, "Ready", a)
            /\ result' = [result EXCEPT ![t] = "Ok"]
            /\ pc' = [pc EXCEPT ![t] = "done"]
       ELSE /\ pc' = [pc EXCEPT ![t] = "lock"]
            /\ UNCHANGED <<notes, result>>
  /\ UNCHANGED <<GLOBAL_ENGINE, installs, LOAD_STATE, stateLock, marker, kind,
                 pending, lateCall, claimedFrom, ranLoad, waited, loads, failures>>
  /\ UNCHANGED <<subVars, procVars>>
  /\ UNCHANGED voiceVars
  /\ UNCHANGED assetVars
  /\ UNCHANGED fileVars

\* engine.rs:66-67 / 130-131: lock.lock().unwrap()
AcquireLock(t) ==
  /\ pc[t] = "lock"
  /\ stateLock = 0
  /\ stateLock' = t
  /\ pc' = [pc EXCEPT ![t] = "locked"]
  /\ UNCHANGED <<GLOBAL_ENGINE, installs, LOAD_STATE, marker, kind, result,
                 pending, notes, lateCall, claimedFrom, ranLoad, waited, loads, failures>>
  /\ UNCHANGED <<subVars, procVars>>
  /\ UNCHANGED voiceVars
  /\ UNCHANGED assetVars
  /\ UNCHANGED fileVars

\* MatchArm without the Loading arm: a caller that finds Loading claims the load too.
MatchArm_NoWait(loaded, tag) ==
  IF loaded THEN "ready"
  ELSE IF tag = "Done" THEN "ready"
  ELSE "claim"

\* MatchArm that neither re-checks the handle nor has a Done arm.
MatchArm_NoDone(loaded, tag) ==
  IF tag = "Loading" THEN "wait" ELSE "claim"

\* MatchArm that treats Failed like Done.
MatchArm_FailedIsDone(loaded, tag) ==
  IF loaded THEN "ready"
  ELSE IF tag = "Loading" THEN "wait"
  ELSE IF tag \in {"Done", "Failed"} THEN "ready"
  ELSE "claim"

\* The arm of `match &*state` a caller takes (engine.rs:75-112 / 140-188), after the
\* re-check under the lock (engine.rs:70-73 / 133-138).
MatchArm(loaded, tag) ==
  IF loaded THEN "ready"
  ELSE IF tag = "Loading" THEN "wait"
  ELSE IF tag = "Done" THEN "ready"
  ELSE "claim"

\* engine.rs:69-100 / 133-171: everything done while the guard `state` is held.
LockedMatch(t) ==
  /\ pc[t] = "locked"
  /\ stateLock = t
  /\ stateLock' = 0
  /\ LET arm == MatchArm(is_engine_loaded, LOAD_STATE.tag) IN
     \/ /\ arm = "ready"
        /\ \E a \in AttachOutcomes(t) : notes' = notify_status(t, "Ready", a)
        /\ result' = [result EXCEPT ![t] = "Ok"]
        /\ pc' = [pc EXCEPT ![t] = "done"]
        /\ UNCHANGED <<LOAD_STATE, claimedFrom>>
     \/ /\ arm = "wait"
        /\ \E a \in AttachOutcomes(t) : notes' = notify_status(t, "Waiting for model...", a)
        /\ pc' = [pc EXCEPT ![t] = "waiting"]
        /\ UNCHANGED <<LOAD_STATE, claimedFrom, result>>
     \/ /\ arm = "claim"
        /\ LOAD_STATE' = Loading
        /\ claimedFrom' = [claimedFrom EXCEPT ![t] = LOAD_STATE.tag]
        /\ pc' = [pc EXCEPT ![t] = IF kind[t] = "ensure_loaded" THEN "do_load" ELSE "attach"]
        /\ UNCHANGED <<notes, result>>
  /\ UNCHANGED <<GLOBAL_ENGINE, installs, marker, kind, pending, lateCall,
                 ranLoad, waited, loads, failures>>
  /\ UNCHANGED <<subVars, procVars>>
  /\ UNCHANGED voiceVars
  /\ UNCHANGED assetVars
  /\ UNCHANGED fileVars

\* engine.rs:79-81 / 145-147: a thread blocked in cvar.wait may wake spuriously.
SpuriousWake(t) ==
  /\ pc[t] = "waiting"
  /\ pc' = [pc EXCEPT ![t] = "woken"]
  /\ UNCHANGED <<GLOBAL_ENGINE, installs, LOAD_STATE, stateLock, marker, kind, result,
                 pending, notes, lateCall, claimedFrom, ranLoad, waited, loads, failures>>
  /\ UNCHANGED <<subVars, procVars>>
  /\ UNCHANGED voiceVars
  /\ UNCHANGED assetVars
  /\ UNCHANGED fileVars

\* The loop test `while *state == LoadState::Loading` (engine.rs:79 / 145).
KeepsWaiting(tag) == tag = "Loading"

\* engine.rs:79-82 / 145-148: cvar.wait returns with the mutex re-acquired, the loop
\* test is evaluated and the thread either waits again or drops the guard.
WakeRecheck(t) ==
  /\ pc[t] = "woken"
  /\ stateLock = 0
  /\ pc' = [pc EXCEPT ![t] = IF KeepsWaiting(LOAD_STATE.tag) THEN "waiting" ELSE "postwait"]
  /\ UNCHANGED <<GLOBAL_ENGINE, installs, LOAD_STATE, stateLock, marker, kind, result,
                 pending, notes, lateCall, claimedFrom, ranLoad, waited, loads, failures>>
  /\ UNCHANGED <<subVars, procVars>>
  /\ UNCHANGED voiceVars
  /\ UNCHANGED assetVars
  /\ UNCHANGED fileVars

\* engine.rs:84-91 / 150-161: the waiter's verdict after the wait.
PostWait(t) ==
  /\ pc[t] = "postwait"
  /\ \E a \in AttachOutcomes(t) :
       IF is_engine_loaded
         THEN /\ notes' = notify_status(t, "Ready", a)
              /\ result' = [result EXCEPT ![t] = "Ok"]
         ELSE /\ notes' = notify_status(t, ErrorStatus(WAIT_ERROR), a)
              /\ result' = [result EXCEPT ![t] = WAIT_ERROR]
  /\ pc' = [pc EXCEPT ![t] = "done"]
  /\ UNCHANGED <<GLOBAL_ENGINE, installs, LOAD_STATE, stateLock, marker, kind,
                 pending, lateCall, claimedFrom, ranLoad, waited, loads, failures>>
  /\ UNCHANGED <<subVars, procVars>>
  /\ UNCHANGED voiceVars
  /\ UNCHANGED assetVars
  /\ UNCHANGED fileVars

\* engine.rs:173-178: the loader of ensure_loaded_from_thread attaches to the JVM.
AttachLoader(t) ==
  /\ pc[t] = "attach"
  /\ \/ /\ pc' = [pc EXCEPT ![t] = "do_load"]
        /\ UNCHANGED pending
     \/ /\ pc' = [pc EXCEPT ![t] = "publish"]
        /\ pending' = [pending EXCEPT ![t] = ATTACH_ERROR]
  /\ UNCHANGED <<GLOBAL_ENGINE, installs, LOAD_STATE, stateLock, marker, kind, result,
                 notes, lateCall, claimedFrom, ranLoad, waited, loads, failures>>
  /\ UNCHANGED <<subVars, procVars>>
  /\ UNCHANGED voiceVars
  /\ UNCHANGED assetVars
  /\ UNCHANGED fileVars

\* assets.rs:10-58 extract_assets: "ok", an error before the marker test ("jni_err",
\* assets.rs:11-22) or an error after the directory was wiped ("copy_err", assets.rs:39-54).
ExtractOutcomes == IF marker THEN {"ok", "jni_err"} ELSE {"ok", "jni_err", "copy_err"}

\* An extraction that writes the marker whatever happened.
extract_assets_AlwaysMarks(o) == TRUE

\* assets.rs:29-31, 54  the marker after the call: there after an Ok return, untouched by an
\* error.
extract_assets(o) == IF o = "ok" THEN TRUE ELSE marker

\* engine.rs:193-202: do_load up to "Loading model...".
DoLoadAssets(t) ==
  /\ pc[t] = "do_load"
  /\ loads' = loads + 1
  /\ ranLoad' = [ranLoad EXCEPT ![t] = TRUE]
  /\ \E o \in ExtractOutcomes :
       /\ marker' = extract_assets(o)
       /\ IF o = "ok"
            THEN /\ notes' = [notes EXCEPT ![t] = @ \o <<"Checking assets...", "Loading model...">>]
                 /\ pc' = [pc EXCEPT ![t] = "load_model"]
                 /\ UNCHANGED pending
            ELSE /\ notes' = [notes EXCEPT ![t] =
                                 @ \o <<"Checking assets...", ErrorStatus(ASSET_ERROR)>>]
                 /\ pc' = [pc EXCEPT ![t] = "publish"]
                 /\ pending' = [pending EXCEPT ![t] = ASSET_ERROR]
  /\ UNCHANGED <<GLOBAL_ENGINE, installs, LOAD_STATE, stateLock, kind, result,
                 lateCall, claimedFrom, waited, failures>>
  /\ UNCHANGED <<subVars, procVars>>
  /\ UNCHANGED voiceVars
  /\ UNCHANGED assetVars
  /\ UNCHANGED fileVars

\* A store that leaves the handle as it was.
InstallEngine_Stale == GLOBAL_ENGINE

\* engine.rs:210  *GLOBAL_ENGINE.lock().unwrap() = Some(Arc::new(Mutex::new(eng)))
InstallEngine == installs + 1

\* engine.rs:204-227: load_model_with_params and its two arms.
DoLoadModel(t) ==
  /\ pc[t] = "load_model"
  /\ \/ /\ GLOBAL_ENGINE' = InstallEngine
        /\ installs' = installs + 1
        /\ notes' = [notes EXCEPT ![t] = Append(@, "Ready")]
        /\ pending' = [pending EXCEPT ![t] = "Ok"]
        /\ UNCHANGED marker
     \/ /\ marker' = FALSE
        /\ notes' = [notes EXCEPT ![t] = Append(@, ErrorStatus(MODEL_ERROR))]
        /\ pending' = [pending EXCEPT ![t] = MODEL_ERROR]
        /\ UNCHANGED <<GLOBAL_ENGINE, installs>>
  /\ pc' = [pc EXCEPT ![t] = "publish"]
  /\ UNCHANGED <<LOAD_STATE, stateLock, kind, result, lateCall, claimedFrom,
                 ranLoad, waited, loads, failures>>
  /\ UNCHANGED <<subVars, procVars>>
  /\ UNCHANGED voiceVars
  /\ UNCHANGED assetVars
  /\ UNCHANGED fileVars

\* A publication that reports Done whatever the load returned.
Published_Done(r) == Done

\* A publication that returns the state to Idle after a failure.
Published_Idle(r) == IF r = "Ok" THEN Done ELSE Idle

\* engine.rs:105-108 / 181-184: the state the loader publishes for its result.
Published(r) == IF r = "Ok" THEN Done ELSE Failed(r)

\* A notification that reaches no waiter.
notify_all_Lost == pc

\* engine.rs:109 / 185: cvar.notify_all()
notify_all == [u \in Threads |-> IF pc[u] = "waiting" THEN "woken" ELSE pc[u]]

\* engine.rs:104-110 / 180-186: re-lock, publish, wake the waiters, return the result.
Publish(t) ==
  /\ pc[t] = "publish"
  /\ stateLock = 0
  /\ LOAD_STATE' = Published(pending[t])
  /\ pc' = [notify_all EXCEPT ![t] = "done"]
  /\ result' = [result EXCEPT ![t] = pending[t]]
  /\ failures' = IF pending[t] = "Ok" THEN failures ELSE failures + 1
  /\ UNCHANGED <<GLOBAL_ENGINE, installs, stateLock, marker, kind, pending, notes,
                 lateCall, claimedFrom, ranLoad, waited, loads>>
  /\ UNCHANGED <<subVars, procVars>>
  /\ UNCHANGED voiceVars
  /\ UNCHANGED assetVars
  /\ UNCHANGED fileVars

\* Wall-clock time passes for every thread blocked in cvar.wait.
Tick ==
  /\ \E t \in Threads : pc[t] \in {"waiting", "woken"} /\ waited[t] < MaxWaitTicks * TickSecs
  /\ waited' = [t \in Threads |->
                  IF pc[t] \in {"waiting", "woken"} /\ waited[t] < MaxWaitTicks * TickSecs
                    THEN waited[t] + TickSecs ELSE waited[t]]
  /\ UNCHANGED <<GLOBAL_ENGINE, installs, LOAD_STATE, stateLock, marker, pc, kind,
                 result, pending, notes, lateCall, claimedFrom, ranLoad, loads, failures>>
  /\ UNCHANGED <<subVars, procVars>>
  /\ UNCHANGED voiceVars
  /\ UNCHANGED assetVars
  /\ UNCHANGED fileVars

ensure_loaded(t) ==
  \/ Call(t)
  \/ FastPath(t)
  \/ AcquireLock(t)
  \/ LockedMatch(t)
  \/ SpuriousWake(t)
  \/ WakeRecheck(t)
  \/ PostWait(t)
  \/ AttachLoader(t)
  \/ DoLoadAssets(t)
  \/ DoLoadModel(t)
  \/ Publish(t)

NextLoad == \E t \in Threads : ensure_loaded(t)

SpecLoad == Init /\ [][NextLoad]_vars

\* The steps of its call that thread t takes on its own once it has arrived; the return
\* of cvar.wait without a notification is not among them.
Run(t) ==
  \/ FastPath(t)
  \/ AcquireLock(t)
  \/ LockedMatch(t)
  \/ WakeRecheck(t)
  \/ PostWait(t)
  \/ AttachLoader(t)
  \/ DoLoadAssets(t)
  \/ DoLoadModel(t)
  \/ Publish(t)

\* The callers of the fair model: a loader, a loader that retries and a waiter.
FairThreads == {t \in Threads : t <= 3}

NextFair == \E t \in FairThreads : ensure_loaded(t)

\* The coordinator under a fair scheduler: a thread that can go on eventually does, and
\* with it every do_load terminates. Callers arrive when they like, each once.
SpecLoadFair == Init /\ [][NextFair]_vars /\ \A t \in FairThreads : WF_vars(Run(t))

NextWait == NextLoad \/ Tick

SpecWait == Init /\ [][NextWait]_vars

(* ----------------------------- subtitle.rs ----------------------------- *)

\* Inputs of pushAudio: <<length, amplitude in thousandths>>; every sample of a call has
\* the same amplitude.
PushInputs == {<<16000, 3>>, <<36000, 0>>, <<36000, 3>>}

\* Inputs of setUpdateInterval, in tenths of a second.
IntervalInputs == {-10, 10, 20}

\* subtitle.rs:126  (interval_seconds * 16000.0) as usize; the cast saturates at 0.
IntervalSamples(tenths) == IF tenths < 0 THEN 0 ELSE (tenths * SAMPLE_RATE) \div 10

RECURSIVE BufLen(_)
\* Vec::len of a run-length coded buffer.
BufLen(b) == IF b = << >> THEN 0 ELSE b[1][1] + BufLen(Tail(b))

RECURSIVE SumSq(_)
\* subtitle.rs:149  buffer.iter().map(|&x| x * x).sum(), in millionths.
SumSq(b) == IF b = << >> THEN 0 ELSE b[1][1] * b[1][2] * b[1][2] + SumSq(Tail(b))

\* subtitle.rs:142  buffer.extend_from_slice(&input)
Extend(b, len, amp) ==
  IF len = 0 THEN b
  ELSE IF b # << >> /\ b[Len(b)][2] = amp
    THEN [b EXCEPT ![Len(b)] = <<@[1] + len, amp>>]
    ELSE Append(b, <<len, amp>>)

RECURSIVE TakeLast(_, _)
\* subtitle.rs:158-160  buffer[buffer_len - n ..].to_vec()
TakeLast(b, n) ==
  IF n = 0 \/ b = << >> THEN << >>
  ELSE LET last == b[Len(b)]
           front == SubSeq(b, 1, Len(b) - 1)
       IN IF last[1] >= n THEN << <<n, last[2]>> >>
          ELSE TakeLast(front, n - last[1]) \o << last >>

\* A silence gate that lets every window through.
Loud_Always(b) == TRUE

\* subtitle.rs:150-152  rms > 0.002 with rms = sqrt(sum_sq / buffer_len); an empty buffer
\* gives NaN, which is not greater than the threshold.
Loud(b) == BufLen(b) > 0 /\ SumSq(b) > SILENCE_RMS_MILLI * SILENCE_RMS_MILLI * BufLen(b)

\* A test that lets the backlog reach the interval before a window is due.
WindowDue_Late(st, total) == total > st.last_process_sample + st.update_interval

\* subtitle.rs:145  total_samples >= last_process_sample + update_interval
WindowDue(st, total) == total >= st.last_process_sample + st.update_interval

\* A buffer that is never cut back.
Trimmed_Whole(b) == b

\* subtitle.rs:157-161
Trimmed(b) == IF BufLen(b) > OVERLAP_SAMPLES THEN TakeLast(b, OVERLAP_SAMPLES) ELSE b

\* The session's sender is alive: LIVE_STATE still holds the state created for it.
ChannelOpen(s) == LIVE_STATE.some /\ LIVE_STATE.session = s

\* subtitle.rs:23-108  LiveSubtitleService.initNative: a new channel, a new state that
\* replaces (and drops) the previous one, a new worker thread.
InitNative ==
  /\ sessions < MaxSessions
  /\ sessions' = sessions + 1
  /\ LIVE_STATE' = FreshLiveState(sessions + 1)
  /\ wpc' = [wpc EXCEPT ![sessions + 1] = "spawned"]
  /\ UNCHANGED <<engineVars, coordVars, inference, pushes, chan, enq, wcur, weng,
                 last_committed_end, wlast>>
  /\ UNCHANGED voiceVars
  /\ UNCHANGED assetVars
  /\ UNCHANGED fileVars

\* subtitle.rs:111-116  LiveSubtitleService.cleanupNative
CleanupNative ==
  /\ LIVE_STATE.some
  /\ LIVE_STATE' = NoLiveState
  /\ UNCHANGED <<engineVars, coordVars, inference, sessions, pushes, workerVars>>
  /\ UNCHANGED voiceVars
  /\ UNCHANGED assetVars
  /\ UNCHANGED fileVars

\* subtitle.rs:119-128  LiveSubtitleService.setUpdateInterval
SetUpdateInterval(tenths) ==
  /\ LIVE_STATE.some
  /\ LIVE_STATE.update_interval # IntervalSamples(tenths)
  /\ LIVE_STATE' = [LIVE_STATE EXCEPT !.update_interval = IntervalSamples(tenths)]
  /\ UNCHANGED <<engineVars, coordVars, inference, sessions, pushes, workerVars>>
  /\ UNCHANGED voiceVars
  /\ UNCHANGED assetVars
  /\ UNCHANGED fileVars

\* The processed mark scheduled one interval ahead of the samples seen.
ProcessMark_NextDue(st, total) == total + st.update_interval

\* subtitle.rs:155  state.last_process_sample = state.total_samples
ProcessMark(st, total) == total

\* A start time taken at the end of the buffer.
StartTime_End(total, buffer) == total

\* subtitle.rs:148  (total_samples - buffer_len) / 16000.0, in samples
StartTime(total, buffer) == total - BufLen(buffer)

\* subtitle.rs:137, 139  the mutexes pushAudio takes: LIVE_STATE and the session buffer.
PushAudioLocks == {"LIVE_STATE", "buffer"}

\* A worker that keeps the session buffer locked while it transcribes it.
WorkerLocks_Buffer(s) == IF wpc[s] = "infer" THEN {"engine", "buffer"} ELSE {}

\* subtitle.rs:60-106  the mutexes the worker of session s holds: the engine guard while it
\* is inside transcribe_samples (l.66-69), and none otherwise; its window is an owned clone
\* received from the channel.
WorkerLocks(s) == IF wpc[s] = "infer" THEN {"engine"} ELSE {}

\* subtitle.rs:131-164  LiveSubtitleService.pushAudio: nothing happens while LIVE_STATE
\* holds None (l.137-138); sending fails, and is ignored, when the worker has dropped the
\* receiver.
PushAudio(len, amp) ==
  /\ pushes < MaxPushes
  /\ \A w \in Sessions : WorkerLocks(w) \cap PushAudioLocks = {}
  /\ pushes' = pushes + 1
  /\ IF LIVE_STATE.some
       THEN LET s == LIVE_STATE.session
                buffer == Extend(LIVE_STATE.buffer, len, amp)
                total == LIVE_STATE.total_samples + len
                due == WindowDue(LIVE_STATE, total)
                start_time == StartTime(total, buffer)
                sent == due /\ Loud(buffer) /\ wpc[s] # "exit"
            IN /\ LIVE_STATE' = [LIVE_STATE EXCEPT
                                   !.buffer = IF due THEN Trimmed(buffer) ELSE buffer,
                                   !.total_samples = total,
                                   !.heard = Extend(@, len, amp),
                                   !.last_process_sample =
                                      IF due THEN ProcessMark(LIVE_STATE, total) ELSE @]
               /\ chan' = IF sent
                            THEN [chan EXCEPT ![s] = Append(@, [id |-> enq[s] + 1,
                                                                samples |-> buffer,
                                                                start_time |-> start_time])]
                            ELSE chan
               /\ enq' = IF sent THEN [enq EXCEPT ![s] = @ + 1] ELSE enq
       ELSE UNCHANGED <<LIVE_STATE, chan, enq>>
  /\ UNCHANGED <<engineVars, coordVars, inference, sessions, wpc, wcur, weng,
                 last_committed_end, wlast>>
  /\ UNCHANGED voiceVars
  /\ UNCHANGED assetVars
  /\ UNCHANGED fileVars

\* A transcription result (transcribe-rs TranscriptionResult): text, and segments that
\* may be absent. ok = FALSE is an Err; text is a sequence of characters, written here as
\* one-letter words and the blank " "; segment times are in samples from the window start.
ErrResult == [ok |-> FALSE, text |-> << >>, timed |-> FALSE, segments |-> << >>]
Untimed(text) == [ok |-> TRUE, text |-> text, timed |-> FALSE, segments |-> << >>]
Timed(segments) == [ok |-> TRUE, text |-> << >>, timed |-> TRUE, segments |-> segments]

Segment(text, start, end) == [text |-> text, start |-> start, end |-> end]

WordSamples == SAMPLE_RATE \div 2
JitterSamples == MARGIN_SAMPLES \div 2

\* The segments the engine may report for window w when the worker's cursor is c: a word
\* at the head of the window (audio an overlapping earlier window also held), a word and
\* a blank at its tail, and a word that starts just before the cursor.
Segments(w, c) ==
  LET len == BufLen(w.samples)
      rel == c - w.start_time
  IN {sg \in {Segment(<<"a">>, 0, WordSamples),
              Segment(<<"b">>, len - WordSamples, len),
              Segment(<<" ">>, len - WordSamples, len),
              Segment(<<"j">>, rel - JitterSamples, rel + WordSamples)} :
        sg.start >= 0 /\ sg.end <= len}

\* subtitle.rs:67-70  what transcribe_samples may return for the window.
Results(w, c) ==
  {ErrResult, Untimed(<< >>), Untimed(<<"x">>), Timed(<< >>)}
  \cup {Timed(<<sg>>) : sg \in Segments(w, c)}
  \cup {Timed(<<p[1], p[2]>>) :
          p \in {q \in Segments(w, c) \X Segments(w, c) : q[1].end <= q[2].start}}

\* The overlap filter without its margin test.
Survives_All(sg, start_time, cursor) == TRUE

\* subtitle.rs:78-81  abs_start >= last_committed_end - 0.05
Survives(sg, start_time, cursor) == start_time + sg.start >= cursor - MARGIN_SAMPLES

RECURSIVE JoinText(_, _, _, _)
\* subtitle.rs:77-86  the text built from the surviving segments, one space between them.
JoinText(segments, start_time, cursor, new_text) ==
  IF segments = << >> THEN new_text
  ELSE LET sg == Head(segments)
           next == IF Survives(sg, start_time, cursor)
                     THEN (IF new_text # << >> THEN new_text \o <<" ">> ELSE new_text) \o sg.text
                     ELSE new_text
       IN JoinText(Tail(segments), start_time, cursor, next)

RECURSIVE MaxEnd(_, _, _, _)
\* subtitle.rs:73, 88-90  max_end_in_chunk over the surviving segments.
MaxEnd(segments, start_time, cursor, max_end_in_chunk) ==
  IF segments = << >> THEN max_end_in_chunk
  ELSE LET sg == Head(segments)
           abs_end == start_time + sg.end
           next == IF Survives(sg, start_time, cursor) /\ abs_end > max_end_in_chunk
                     THEN abs_end ELSE max_end_in_chunk
       IN MaxEnd(Tail(segments), start_time, cursor, next)

RECURSIVE Trim(_)
\* str::trim
Trim(text) ==
  IF text = << >> THEN text
  ELSE IF Head(text) = " " THEN Trim(Tail(text))
  ELSE IF text[Len(text)] = " " THEN Trim(SubSeq(text, 1, Len(text) - 1))
  ELSE text

\* A text built from the first reported segment only.
NewText_FirstOnly(r, start_time, cursor) ==
  IF r.timed /\ r.segments # << >>
    THEN JoinText(<<Head(r.segments)>>, start_time, cursor, << >>)
  ELSE IF Len(r.text) > 0 THEN r.text
  ELSE << >>

\* subtitle.rs:72-95  new_text for an Ok result.
NewText(r, start_time, cursor) ==
  IF r.timed THEN JoinText(r.segments, start_time, cursor, << >>)
  ELSE IF Len(r.text) > 0 THEN r.text
  ELSE << >>

\* subtitle.rs:72-95  max_end_in_chunk for an Ok result.
MaxEndInChunk(r, start_time, cursor) ==
  IF r.timed THEN MaxEnd(r.segments, start_time, cursor, cursor)
  ELSE IF Len(r.text) > 0 THEN start_time + NOMINAL_SAMPLES
  ELSE cursor

\* A cursor that falls back to zero after a window that produced no subtitle.
NextCursor_ResetOnSilence(r, text_trim, start_time, cursor) ==
  IF text_trim # << >> THEN MaxEndInChunk(r, start_time, cursor) ELSE 0

\* subtitle.rs:71, 97-99  last_committed_end is assigned only for an Ok result whose
\* trimmed text is not empty.
NextCursor(r, text_trim, start_time, cursor) ==
  IF text_trim # << >> THEN MaxEndInChunk(r, start_time, cursor) ELSE cursor

\* A receiver that hands out the newest queued window.
NextWindow_Newest(q) == q[Len(q)]

\* subtitle.rs:60  rx.recv() on the crossbeam channel returns the oldest message.
NextWindow(q) == Head(q)

\* subtitle.rs:52-58  the worker thread attaches to the JVM, or logs and returns; returning
\* drops the receiver and with it whatever the channel holds.
WorkerAttach(s) ==
  /\ wpc[s] = "spawned"
  /\ \E attached \in BOOLEAN :
       /\ wpc' = [wpc EXCEPT ![s] = IF attached THEN "recv" ELSE "exit"]
       /\ chan' = IF attached THEN chan ELSE [chan EXCEPT ![s] = << >>]
  /\ UNCHANGED <<engineVars, coordVars, inference, LIVE_STATE, sessions, pushes,
                 enq, wcur, weng, last_committed_end, wlast>>
  /\ UNCHANGED voiceVars
  /\ UNCHANGED assetVars
  /\ UNCHANGED fileVars

\* subtitle.rs:60-61  rx.recv() and engine::get_engine(): without an engine the window is
\* dropped; recv fails once the channel is empty and its sender gone, and the thread ends,
\* its locals with it.
WorkerRecv(s) ==
  /\ wpc[s] = "recv"
  /\ \/ /\ chan[s] # << >>
        /\ LET w == NextWindow(chan[s])
           IN /\ chan' = [chan EXCEPT ![s] = Tail(@)]
              /\ IF get_engine = 0
                   THEN /\ wlast' = [wlast EXCEPT ![s] =
                                       [NoOutcome EXCEPT !.id = w.id,
                                                         !.start_time = w.start_time,
                                                         !.cursor = last_committed_end[s]]]
                        /\ UNCHANGED <<wpc, wcur, weng, last_committed_end>>
                   ELSE /\ wcur' = [wcur EXCEPT ![s] = w]
                        /\ weng' = [weng EXCEPT ![s] = get_engine]
                        /\ wpc' = [wpc EXCEPT ![s] = "lock"]
                        /\ UNCHANGED <<wlast, last_committed_end>>
     \/ /\ chan[s] = << >>
        /\ ~ChannelOpen(s)
        /\ wpc' = [wpc EXCEPT ![s] = "exit"]
        /\ last_committed_end' = [last_committed_end EXCEPT ![s] = 0]
        /\ wlast' = [wlast EXCEPT ![s] = NoOutcome]
        /\ UNCHANGED <<chan, wcur, weng>>
  /\ UNCHANGED <<engineVars, coordVars, inference, LIVE_STATE, sessions, pushes, enq>>
  /\ UNCHANGED voiceVars
  /\ UNCHANGED assetVars
  /\ UNCHANGED fileVars

\* The guard of the engine's mutex: one holder per engine instance.
EngineFree(inst) == \A h \in inference : h.inst # inst

\* subtitle.rs:67  engine_arc.lock()
WorkerLock(s) ==
  /\ wpc[s] = "lock"
  /\ EngineFree(weng[s])
  /\ inference' = inference \cup {[who |-> "subtitle", id |-> s, inst |-> weng[s]]}
  /\ wpc' = [wpc EXCEPT ![s] = "infer"]
  /\ UNCHANGED <<engineVars, coordVars, LIVE_STATE, sessions, pushes,
                 chan, enq, wcur, weng, last_committed_end, wlast>>
  /\ UNCHANGED voiceVars
  /\ UNCHANGED assetVars
  /\ UNCHANGED fileVars

\* subtitle.rs:68-103  transcribe_samples returns, the guard is dropped, the result is
\* turned into at most one onSubtitleText call.
Transcribed(s, results) ==
  /\ wpc[s] = "infer"
  /\ inference' = inference \ {[who |-> "subtitle", id |-> s, inst |-> weng[s]]}
  /\ \E r \in results :
       LET w == wcur[s]
           cursor == last_committed_end[s]
           text_trim == IF r.ok THEN Trim(NewText(r, w.start_time, cursor)) ELSE << >>
           emits == text_trim # << >>
       IN /\ last_committed_end' =
               [last_committed_end EXCEPT ![s] = NextCursor(r, text_trim, w.start_time, cursor)]
          /\ wlast' = [wlast EXCEPT ![s] =
                         [id |-> w.id, start_time |-> w.start_time, cursor |-> cursor,
                          ok |-> r.ok, timed |-> r.timed, segments |-> r.segments,
                          text |-> r.text, emitted |-> text_trim,
                          called |-> emits, status |-> << >>]]
  /\ wcur' = [wcur EXCEPT ![s] = NoWindow]
  /\ weng' = [weng EXCEPT ![s] = 0]
  /\ wpc' = [wpc EXCEPT ![s] = "recv"]
  /\ UNCHANGED <<engineVars, coordVars, LIVE_STATE, sessions, pushes, chan, enq>>
  /\ UNCHANGED voiceVars
  /\ UNCHANGED assetVars
  /\ UNCHANGED fileVars

\* The worker's step for a window on which the engine reports any of Results.
WorkerTranscribe(s) == Transcribed(s, Results(wcur[s], last_committed_end[s]))

\* The results of an engine that reports one word per window: the word at the head of the
\* window, or a word that starts exactly at the worker's cursor.
ResultsAtCursor(w, c) ==
  LET len == BufLen(w.samples)
      rel == c - w.start_time
  IN {Timed(<<sg>>) : sg \in {x \in {Segment(<<"a">>, 0, WordSamples),
                                      Segment(<<"c">>, rel, rel + WordSamples)} :
                                x.start >= 0 /\ x.end <= len}}

\* The worker's step for a window on which the engine reports one of ResultsAtCursor.
WorkerTranscribeAtCursor(s) == Transcribed(s, ResultsAtCursor(wcur[s], last_committed_end[s]))

\* engine.rs:204-213  a loader thread finishes do_load and stores the engine.
LoaderInstalls ==
  /\ GLOBAL_ENGINE = 0
  /\ installs' = installs + 1
  /\ GLOBAL_ENGINE' = InstallEngine
  /\ UNCHANGED <<coordVars, subVars>>
  /\ UNCHANGED voiceVars
  /\ UNCHANGED assetVars
  /\ UNCHANGED fileVars

\* Inputs of pushAudio that pass the silence gate.
LoudInputs == {in \in PushInputs : Loud(<<in>>)}

Session == InitNative \/ CleanupNative

Worker(s) == WorkerAttach(s) \/ WorkerRecv(s) \/ WorkerLock(s) \/ WorkerTranscribe(s)

\* A live-subtitle session fed with audible audio at the default interval, its worker, and
\* a loader that installs the engine.
NextSub ==
  \/ Session
  \/ \E in \in LoudInputs : PushAudio(in[1], in[2])
  \/ \E s \in Sessions : Worker(s)
  \/ LoaderInstalls

\* The marker file plays no part in a subtitle session.
InitSub == Init /\ ~marker

SpecSub == InitSub /\ [][NextSub]_vars

\* The same session with an engine that reports one word per window.
NextAtCursor ==
  \/ Session
  \/ \E in \in LoudInputs : PushAudio(in[1], in[2])
  \/ \E s \in Sessions : WorkerAttach(s) \/ WorkerRecv(s) \/ WorkerLock(s)
                            \/ WorkerTranscribeAtCursor(s)
  \/ LoaderInstalls

SpecAtCursor == InitSub /\ [][NextAtCursor]_vars

\* The windower under every input, with a worker that finds no engine.
NextWindower ==
  \/ Session
  \/ \E tenths \in IntervalInputs : SetUpdateInterval(tenths)
  \/ \E in \in PushInputs : PushAudio(in[1], in[2])
  \/ \E s \in Sessions : WorkerAttach(s) \/ WorkerRecv(s)

SpecWindower == InitSub /\ [][NextWindower]_vars

(* ------------- voice_session.rs, transcribe_file.rs: one-shot threads --- *)

INFERENCE_ERROR == "Inference error"
NOT_LOADED_ERROR == "model not loaded"

\* voice_session.rs:175 / transcribe_file.rs:131  the thread finds get_engine() populated
\* and does not call ensure_loaded (Call models the thread that finds it empty).
OneShotSkip(t) ==
  /\ pc[t] = "idle"
  /\ \A u \in Threads : u < t => pc[u] # "idle"
  /\ get_engine # 0
  /\ kind' = [kind EXCEPT ![t] = "ensure_loaded"]
  /\ pc' = [pc EXCEPT ![t] = "skipped"]
  /\ lateCall' = (lateCall \/ LOAD_STATE # Idle)
  /\ UNCHANGED <<engineVars, LOAD_STATE, stateLock, marker, result, pending, notes,
                 claimedFrom, ranLoad, waited, loads, failures, procVars, subVars>>
  /\ UNCHANGED voiceVars
  /\ UNCHANGED assetVars
  /\ UNCHANGED fileVars

\* voice_session.rs:181, 195-197 / transcribe_file.rs:138-139, 154-156  the second
\* get_engine(), reached when ensure_loaded was skipped or returned Ok; only the thread of
\* transcribeAudio sends "Transcribing..." itself.
OneShotGetEngine(t) ==
  /\ \/ pc[t] = "skipped"
     \/ pc[t] = "done" /\ kind[t] = "ensure_loaded" /\ result[t] = "Ok"
  /\ IF get_engine = 0
       THEN /\ notes' = notify_status(t, ErrorStatus(NOT_LOADED_ERROR), TRUE)
            /\ pc' = [pc EXCEPT ![t] = "ended"]
            /\ UNCHANGED teng
       ELSE /\ teng' = [teng EXCEPT ![t] = get_engine]
            /\ pc' = [pc EXCEPT ![t] = "engine_lock"]
            /\ notes' = notify_status(t, "Transcribing...", t \in fromFile)
  /\ UNCHANGED <<engineVars, LOAD_STATE, stateLock, marker, kind, result, pending, lateCall,
                 claimedFrom, ranLoad, waited, loads, failures, dpc, dnotes, MODEL_LOADING,
                 subVars>>
  /\ UNCHANGED voiceVars
  /\ UNCHANGED assetVars
  /\ UNCHANGED fileVars

\* voice_session.rs:183 / transcribe_file.rs:141  eng_arc.lock()
OneShotLock(t) ==
  /\ pc[t] = "engine_lock"
  /\ EngineFree(teng[t])
  /\ inference' = inference \cup {[who |-> "oneshot", id |-> t, inst |-> teng[t]]}
  /\ pc' = [pc EXCEPT ![t] = "transcribe"]
  /\ UNCHANGED <<engineVars, LOAD_STATE, stateLock, marker, kind, result, pending, notes,
                 lateCall, claimedFrom, ranLoad, waited, loads, failures, procVars,
                 LIVE_STATE, sessions, pushes, workerVars>>
  /\ UNCHANGED voiceVars
  /\ UNCHANGED assetVars
  /\ UNCHANGED fileVars

\* voice_session.rs:184-193  transcribe_samples returns, the guard is dropped, the outcome
\* is delivered (transcribe_file.rs:141-153 is the same without the "Ready" status).
OneShotTranscribe(t) ==
  /\ pc[t] = "transcribe"
  /\ inference' = inference \ {[who |-> "oneshot", id |-> t, inst |-> teng[t]]}
  /\ \/ notes' = [notes EXCEPT ![t] = @ \o IF t \in fromFile
                                              THEN <<"onTextTranscribed">>
                                              ELSE <<"Ready", "onTextTranscribed">>]
     \/ notes' = notify_status(t, ErrorStatus(INFERENCE_ERROR), TRUE)
  /\ pc' = [pc EXCEPT ![t] = "ended"]
  /\ UNCHANGED <<engineVars, LOAD_STATE, stateLock, marker, kind, result, pending,
                 lateCall, claimedFrom, ranLoad, waited, loads, failures, procVars,
                 LIVE_STATE, sessions, pushes, workerVars>>
  /\ UNCHANGED voiceVars
  /\ UNCHANGED assetVars
  /\ UNCHANGED fileVars

OneShot(t) == OneShotSkip(t) \/ OneShotGetEngine(t) \/ OneShotLock(t) \/ OneShotTranscribe(t)

(* ------------------- ime.rs, main_activity.rs: direct loaders ---------- *)

\* engine::set_engine(eng), called at ime.rs:65 and main_activity.rs:36 and defined nowhere
\* in the source at hand: it installs the instance into the handle, as do_load does at
\* engine.rs:210.
set_engine == installs + 1

DirectNote(d, msgs) == [dnotes EXCEPT ![d] = @ \o msgs]

\* ime.rs:72, 77  format!("Error: {}", e); main_activity.rs:38, 43  "Model Error: {}" and
\* "Asset Error: {}".
DirectError(d, m) ==
  IF d = "ime" THEN ErrorStatus(m)
  ELSE IF m = ASSET_ERROR THEN "Asset Error" ELSE "Model Error"

\* ime.rs:52 / main_activity.rs:22  initNative spawns the loader thread.
DirectSpawn(d) ==
  /\ dpc[d] = "none"
  /\ dpc' = [dpc EXCEPT ![d] = IF d = "ime" THEN "check" ELSE "attach"]
  /\ UNCHANGED <<engineVars, LOAD_STATE, stateLock, marker, pc, kind, result, pending, notes,
                 lateCall, claimedFrom, ranLoad, waited, loads, failures, teng, dnotes,
                 MODEL_LOADING, subVars>>
  /\ UNCHANGED voiceVars
  /\ UNCHANGED assetVars
  /\ UNCHANGED fileVars

\* ime.rs:53-54, 83-87 and main_activity.rs:32, 39-41  if !engine::is_engine_loaded()
DirectCheck(d) ==
  /\ dpc[d] = "check"
  /\ IF is_engine_loaded
       THEN /\ dpc' = [dpc EXCEPT ![d] = "end"]
            /\ \/ dnotes' = DirectNote(d, <<"Ready">>)
               \/ d = "ime" /\ UNCHANGED dnotes
            /\ UNCHANGED MODEL_LOADING
       ELSE /\ dpc' = [dpc EXCEPT ![d] = IF d = "ime" THEN "attach" ELSE "load"]
            /\ MODEL_LOADING' = IF d = "ime" THEN TRUE ELSE MODEL_LOADING
            /\ UNCHANGED dnotes
  /\ UNCHANGED <<engineVars, LOAD_STATE, stateLock, marker, pc, kind, result, pending, notes,
                 lateCall, claimedFrom, ranLoad, waited, loads, failures, teng, subVars>>
  /\ UNCHANGED voiceVars
  /\ UNCHANGED assetVars
  /\ UNCHANGED fileVars

\* ime.rs:55-57, 79-81 and main_activity.rs:23-26  attach_current_thread and the first status.
DirectAttach(d) ==
  /\ dpc[d] = "attach"
  /\ \/ /\ dpc' = [dpc EXCEPT ![d] = "extract"]
        /\ dnotes' = DirectNote(d, IF d = "ime" THEN <<"Loading model...">>
                                                ELSE <<"Checking assets...">>)
        /\ UNCHANGED MODEL_LOADING
     \/ /\ dpc' = [dpc EXCEPT ![d] = "end"]
        /\ MODEL_LOADING' = IF d = "ime" THEN FALSE ELSE MODEL_LOADING
        /\ UNCHANGED dnotes
  /\ UNCHANGED <<engineVars, LOAD_STATE, stateLock, marker, pc, kind, result, pending, notes,
                 lateCall, claimedFrom, ranLoad, waited, loads, failures, teng, subVars>>
  /\ UNCHANGED voiceVars
  /\ UNCHANGED assetVars
  /\ UNCHANGED fileVars

\* ime.rs:60, 75-78 and main_activity.rs:28-30, 43  assets::extract_assets
DirectExtract(d) ==
  /\ dpc[d] = "extract"
  /\ \E o \in ExtractOutcomes :
       /\ marker' = extract_assets(o)
       /\ IF o = "ok"
            THEN /\ dpc' = [dpc EXCEPT ![d] = IF d = "ime" THEN "load" ELSE "check"]
                 /\ dnotes' = IF d = "ime" THEN dnotes ELSE DirectNote(d, <<"Loading model...">>)
                 /\ UNCHANGED MODEL_LOADING
            ELSE /\ dpc' = [dpc EXCEPT ![d] = "end"]
                 /\ dnotes' = DirectNote(d, <<DirectError(d, ASSET_ERROR)>>)
                 /\ MODEL_LOADING' = IF d = "ime" THEN FALSE ELSE MODEL_LOADING
  /\ UNCHANGED <<engineVars, LOAD_STATE, stateLock, pc, kind, result, pending, notes,
                 lateCall, claimedFrom, ranLoad, waited, loads, failures, teng, subVars>>
  /\ UNCHANGED voiceVars
  /\ UNCHANGED assetVars
  /\ UNCHANGED fileVars

\* ime.rs:62-73 and main_activity.rs:33-38  load_model_with_params, then set_engine on Ok.
DirectLoad(d) ==
  /\ dpc[d] = "load"
  /\ \/ /\ GLOBAL_ENGINE' = set_engine
        /\ installs' = installs + 1
        /\ dnotes' = DirectNote(d, <<"Ready">>)
     \/ /\ dnotes' = DirectNote(d, <<DirectError(d, MODEL_ERROR)>>)
        /\ UNCHANGED engineVars
  /\ MODEL_LOADING' = IF d = "ime" THEN FALSE ELSE MODEL_LOADING
  /\ dpc' = [dpc EXCEPT ![d] = "end"]
  /\ UNCHANGED <<LOAD_STATE, stateLock, marker, pc, kind, result, pending, notes,
                 lateCall, claimedFrom, ranLoad, waited, loads, failures, teng, subVars>>
  /\ UNCHANGED voiceVars
  /\ UNCHANGED assetVars
  /\ UNCHANGED fileVars

DirectLoader(d) ==
  DirectSpawn(d) \/ DirectCheck(d) \/ DirectAttach(d) \/ DirectExtract(d) \/ DirectLoad(d)

\* The callers of the process-wide model: two coordinator callers and the direct loaders.
ProcThreads == {t \in Threads : t <= 2}

NextProc ==
  \/ \E t \in ProcThreads : ensure_loaded(t) \/ OneShot(t)
  \/ \E d \in DirectLoaders : DirectLoader(d)

SpecProc == Init /\ [][NextProc]_vars

(* ------------ recognize.rs, voice_session.rs: voice session ------------ *)

NO_MICROPHONE == "Error: no microphone available. Check permissions."
MICROPHONE_FAILED == "Error: failed to open microphone"
NO_AUDIO == "Error: no audio recorded. Check microphone permissions."

\* An emptiness test that lets every buffer through.
is_empty_Never(buffer) == FALSE

\* voice_session.rs:154  buffer.is_empty(); transcribe_file.rs:94  len == 0
is_empty(buffer) == buffer = << >>

\* The threads a voice session may spawn: loaders and transcription threads.
VoiceThreads == {t \in Threads : t <= 2}

\* Threads are numbered in the order they are spawned.
NextThread(t) == pc[t] = "idle" /\ \A u \in Threads : u < t => pc[u] # "idle"

\* recognize.rs:12-19, voice_session.rs:48-74  initNative: init_session builds the state,
\* spawns the thread that calls ensure_loaded_from_thread, and the state replaces (and
\* drops) the previous one.
InitSession ==
  /\ \E t \in VoiceThreads :
       /\ NextThread(t)
       /\ kind' = [kind EXCEPT ![t] = "ensure_loaded_from_thread"]
       /\ pc' = [pc EXCEPT ![t] = "fast"]
  /\ RECOG_STATE' = FreshVoiceSession
  /\ vstatus' = << >>
  /\ lateCall' = (lateCall \/ LOAD_STATE # Idle)
  /\ UNCHANGED <<engineVars, LOAD_STATE, stateLock, marker, result, pending, notes,
                 claimedFrom, ranLoad, waited, loads, failures, procVars, subVars, assetVars, fileVars,
                 captured, tbuf>>

\* recognize.rs:22-27  cleanupNative drops the state and with it the capture stream.
CleanupSession ==
  /\ RECOG_STATE.some
  /\ RECOG_STATE' = NoVoiceSession
  /\ vstatus' = << >>
  /\ UNCHANGED <<engineVars, coordVars, subVars, assetVars, fileVars, captured, tbuf>>

\* What the platform answers to start_recording: no input device, a stream that cannot
\* be built, or a running stream.
StartOutcomes == {"no_device", "build_failed", "ok"}

\* voice_session.rs:76-145  start_recording: returns before touching the state when there
\* is no device; otherwise clears the buffer, and installs the stream when it was built.
StartRecording ==
  /\ RECOG_STATE.some
  /\ \E o \in StartOutcomes :
       /\ RECOG_STATE' =
            IF o = "no_device" THEN RECOG_STATE
            ELSE [RECOG_STATE EXCEPT !.audio_buffer = << >>,
                                     !.stream = IF o = "ok" THEN TRUE ELSE @]
       /\ vstatus' = IF o = "no_device" THEN <<NO_MICROPHONE>>
                     ELSE IF o = "build_failed" THEN <<MICROPHONE_FAILED>>
                     ELSE <<"Listening...">>
  /\ UNCHANGED <<engineVars, coordVars, subVars, assetVars, fileVars, captured, tbuf>>

\* voice_session.rs:105-106  the capture callback of a live stream appends a chunk; chunks
\* are numbered in order of capture.
Capture ==
  /\ RECOG_STATE.some
  /\ RECOG_STATE.stream
  /\ captured < MaxChunks
  /\ captured' = captured + 1
  /\ RECOG_STATE' = [RECOG_STATE EXCEPT !.audio_buffer = Append(@, captured + 1)]
  /\ UNCHANGED <<engineVars, coordVars, subVars, assetVars, fileVars, vstatus, tbuf>>

\* voice_session.rs:147-205  stop_recording: drops the stream, clones the buffer, rejects
\* an empty one, otherwise notifies "Transcribing..." and moves the clone into a new thread.
StopRecording ==
  /\ RECOG_STATE.some
  /\ RECOG_STATE' = [RECOG_STATE EXCEPT !.stream = FALSE]
  /\ LET buffer == RECOG_STATE.audio_buffer
     IN IF is_empty(buffer)
          THEN /\ vstatus' = <<NO_AUDIO>>
               /\ UNCHANGED <<pc, tbuf>>
          ELSE /\ vstatus' = <<"Transcribing...">>
               /\ \E t \in VoiceThreads :
                    /\ NextThread(t)
                    /\ pc' = [pc EXCEPT ![t] = "spawned"]
                    /\ tbuf' = [tbuf EXCEPT ![t] = buffer]
  /\ UNCHANGED <<engineVars, LOAD_STATE, stateLock, marker, kind, result, pending, notes,
                 lateCall, claimedFrom, ranLoad, waited, loads, failures, procVars, subVars, assetVars, fileVars,
                 captured>>

\* voice_session.rs:200-205  cancel_recording
CancelRecording ==
  /\ RECOG_STATE.some
  /\ RECOG_STATE' = [RECOG_STATE EXCEPT !.stream = FALSE, !.audio_buffer = << >>]
  /\ vstatus' = <<"Canceled">>
  /\ UNCHANGED <<engineVars, coordVars, subVars, assetVars, fileVars, captured, tbuf>>

\* voice_session.rs:168-172  the transcription thread attaches to the JVM or returns.
VoiceAttach(t) ==
  /\ pc[t] = "spawned"
  /\ \E attached \in BOOLEAN :
       pc' = [pc EXCEPT ![t] = IF attached THEN "attached" ELSE "ended"]
  /\ UNCHANGED <<engineVars, LOAD_STATE, stateLock, marker, kind, result, pending, notes,
                 lateCall, claimedFrom, ranLoad, waited, loads, failures, procVars, subVars,
                 voiceVars, assetVars, fileVars>>

\* voice_session.rs:175-176  if engine::get_engine().is_none() the thread enters
\* ensure_loaded with its own env.
VoiceCheck(t) ==
  /\ pc[t] = "attached"
  /\ pc' = [pc EXCEPT ![t] = IF get_engine = 0 THEN "fast" ELSE "skipped"]
  /\ lateCall' = IF get_engine = 0 THEN (lateCall \/ LOAD_STATE # Idle) ELSE lateCall
  /\ UNCHANGED <<engineVars, LOAD_STATE, stateLock, marker, kind, result, pending, notes,
                 claimedFrom, ranLoad, waited, loads, failures, procVars, subVars,
                 voiceVars, assetVars, fileVars>>

VoiceCalls == InitSession \/ CleanupSession \/ StartRecording \/ Capture
                \/ StopRecording \/ CancelRecording

\* The threads of a voice session: the attach and the check of a transcription thread,
\* the body of ensure_loaded / ensure_loaded_from_thread, and the transcription.
VoiceThread(t) ==
  \/ VoiceAttach(t)
  \/ VoiceCheck(t)
  \/ FastPath(t)
  \/ AcquireLock(t)
  \/ LockedMatch(t)
  \/ SpuriousWake(t)
  \/ WakeRecheck(t)
  \/ PostWait(t)
  \/ AttachLoader(t)
  \/ DoLoadAssets(t)
  \/ DoLoadModel(t)
  \/ Publish(t)
  \/ OneShotGetEngine(t)
  \/ OneShotLock(t)
  \/ OneShotTranscribe(t)

NextVoice == VoiceCalls \/ \E t \in VoiceThreads : VoiceThread(t)

SpecVoice == Init /\ [][NextVoice]_vars

(* ------------------ transcribe_file.rs: the file activity -------------- *)

NO_AUDIO_DATA == ErrorStatus("no audio data to transcribe")

\* The sample arrays the activity passes to transcribeAudio.
FileBuffers == {<< >>, <<1>>}

\* transcribe_file.rs:42-70  initNative stores the state and spawns the thread that calls
\* ensure_loaded_from_thread.
FileInitNative ==
  /\ \E t \in VoiceThreads :
       /\ NextThread(t)
       /\ kind' = [kind EXCEPT ![t] = "ensure_loaded_from_thread"]
       /\ pc' = [pc EXCEPT ![t] = "fast"]
  /\ FILE_STATE' = TRUE
  /\ lateCall' = (lateCall \/ LOAD_STATE # Idle)
  /\ UNCHANGED <<engineVars, LOAD_STATE, stateLock, marker, result, pending, notes,
                 claimedFrom, ranLoad, waited, loads, failures, procVars, subVars, assetVars,
                 voiceVars, fromFile, fstatus>>

\* transcribe_file.rs:73-78  cleanupNative
FileCleanupNative ==
  /\ FILE_STATE
  /\ FILE_STATE' = FALSE
  /\ UNCHANGED <<engineVars, coordVars, subVars, assetVars, voiceVars, fromFile, fstatus>>

\* transcribe_file.rs:81-158  transcribeAudio: returns at once without a state; rejects a
\* length of 0 with one status; returns silently when the array cannot be read; otherwise
\* moves the samples into a new thread and sends nothing itself.
TranscribeAudio(samples) ==
  /\ IF ~FILE_STATE
       THEN /\ fstatus' = << >>
            /\ UNCHANGED <<pc, tbuf, fromFile>>
       ELSE IF is_empty(samples)
         THEN /\ fstatus' = <<NO_AUDIO_DATA>>
              /\ UNCHANGED <<pc, tbuf, fromFile>>
         ELSE /\ fstatus' = << >>
              /\ \/ UNCHANGED <<pc, tbuf, fromFile>>
                 \/ \E t \in VoiceThreads :
                      /\ NextThread(t)
                      /\ pc' = [pc EXCEPT ![t] = "spawned"]
                      /\ tbuf' = [tbuf EXCEPT ![t] = samples]
                      /\ fromFile' = fromFile \cup {t}
  /\ UNCHANGED <<engineVars, LOAD_STATE, stateLock, marker, kind, result, pending, notes,
                 lateCall, claimedFrom, ranLoad, waited, loads, failures, procVars, subVars,
                 assetVars, RECOG_STATE, vstatus, captured, FILE_STATE>>

FileCalls == FileInitNative \/ FileCleanupNative
               \/ \E samples \in FileBuffers : TranscribeAudio(samples)

\* The two one-shot front ends, the voice session and the file activity, and their threads
\* (transcribe_file.rs:125-136 is the attach and the check of voice_session.rs:169-180).
NextOneShot == VoiceCalls \/ FileCalls \/ \E t \in VoiceThreads : VoiceThread(t)

SpecOneShot == Init /\ [][NextOneShot]_vars

(* ------------------- ime.rs: the transcription thread ------------------ *)

IME_TIMEOUT_ERROR == "timeout waiting for model"
IME_NOT_LOADED_ERROR == "model failed to load"

\* The transcription threads the IME may spawn.
ImeThreads == {t \in Threads : t <= 2}

\* The recorded samples stopRecording may find in the buffer; it does not test for none.
ImeBuffers == {<< >>, <<1>>}

\* ime.rs:143-161  stopRecording, once initNative has stored the state and spawned the
\* loader: drops the stream, clones the buffer, notifies "Transcribing..." and moves the
\* clone into a new thread.
ImeStopRecording ==
  /\ dpc["ime"] # "none"
  /\ \E t \in ImeThreads, buffer \in ImeBuffers :
       /\ NextThread(t)
       /\ pc' = [pc EXCEPT ![t] = "ime_spawned"]
       /\ tbuf' = [tbuf EXCEPT ![t] = buffer]
  /\ vstatus' = <<"Transcribing...">>
  /\ UNCHANGED <<engineVars, LOAD_STATE, stateLock, marker, kind, result, pending, notes,
                 lateCall, claimedFrom, ranLoad, waited, loads, failures, procVars, subVars,
                 RECOG_STATE, captured, assetVars, fileVars>>

\* ime.rs:162  jvm.attach_current_thread().unwrap(): a failed attach panics the thread.
ImeAttach(t) ==
  /\ pc[t] = "ime_spawned"
  /\ \E attached \in BOOLEAN :
       pc' = [pc EXCEPT ![t] = IF attached THEN "ime_check" ELSE "ended"]
  /\ UNCHANGED <<engineVars, LOAD_STATE, stateLock, marker, kind, result, pending, notes,
                 lateCall, claimedFrom, ranLoad, waited, loads, failures, procVars, subVars,
                 voiceVars, assetVars, fileVars>>

\* ime.rs:166, 169  get_engine().is_none() && MODEL_LOADING.load(Acquire)
MustWait == get_engine = 0 /\ MODEL_LOADING

\* ime.rs:166-168  the thread waits only if it finds no engine and MODEL_LOADING set.
ImeCheck(t) ==
  /\ pc[t] = "ime_check"
  /\ IF MustWait
       THEN /\ notes' = notify_status(t, "Waiting for model...", TRUE)
            /\ pc' = [pc EXCEPT ![t] = "ime_wait"]
            /\ waited' = [waited EXCEPT ![t] = 0]
       ELSE /\ pc' = [pc EXCEPT ![t] = "ime_get"]
            /\ UNCHANGED <<notes, waited>>
  /\ UNCHANGED <<engineVars, LOAD_STATE, stateLock, marker, kind, result, pending,
                 lateCall, claimedFrom, ranLoad, loads, failures, procVars, subVars,
                 voiceVars, assetVars, fileVars>>

\* ime.rs:169-175  one turn of the polling loop: leave it, give up after
\* LOAD_WAIT_TIMEOUT_SECS, or sleep.
ImePoll(t) ==
  /\ pc[t] = "ime_wait"
  /\ IF ~MustWait
       THEN /\ pc' = [pc EXCEPT ![t] = "ime_get"]
            /\ UNCHANGED <<notes, waited>>
       ELSE IF waited[t] > LOAD_WAIT_TIMEOUT_SECS
         THEN /\ notes' = notify_status(t, ErrorStatus(IME_TIMEOUT_ERROR), TRUE)
              /\ pc' = [pc EXCEPT ![t] = "ended"]
              /\ UNCHANGED waited
         ELSE /\ waited' = [waited EXCEPT ![t] = @ + TickSecs]
              /\ UNCHANGED <<notes, pc>>
  /\ UNCHANGED <<engineVars, LOAD_STATE, stateLock, marker, kind, result, pending,
                 lateCall, claimedFrom, ranLoad, loads, failures, procVars, subVars,
                 voiceVars, assetVars, fileVars>>

\* ime.rs:178-179, 194-196  the get_engine() after the wait.
ImeGetEngine(t) ==
  /\ pc[t] = "ime_get"
  /\ IF get_engine = 0
       THEN /\ notes' = notify_status(t, ErrorStatus(IME_NOT_LOADED_ERROR), TRUE)
            /\ pc' = [pc EXCEPT ![t] = "ended"]
            /\ UNCHANGED teng
       ELSE /\ teng' = [teng EXCEPT ![t] = get_engine]
            /\ pc' = [pc EXCEPT ![t] = "engine_lock"]
            /\ UNCHANGED notes
  /\ UNCHANGED <<engineVars, LOAD_STATE, stateLock, marker, kind, result, pending,
                 lateCall, claimedFrom, ranLoad, waited, loads, failures, dpc, dnotes,
                 MODEL_LOADING, subVars, voiceVars, assetVars, fileVars>>

\* ime.rs:161-197  the thread stopRecording spawns; its transcription (ime.rs:180-193) is
\* that of the other one-shot threads.
ImeThread(t) ==
  \/ ImeAttach(t)
  \/ ImeCheck(t)
  \/ ImePoll(t)
  \/ ImeGetEngine(t)
  \/ OneShotLock(t)
  \/ OneShotTranscribe(t)

NextIme ==
  \/ DirectLoader("ime")
  \/ ImeStopRecording
  \/ \E t \in ImeThreads : ImeThread(t)

\* The input method alone in the process: its loader and its transcription threads.
SpecIme == Init /\ [][NextIme]_vars

(* ------------------------------ assets.rs ------------------------------ *)

\* Everything but the marker and the model directory.
callerVars == <<LOAD_STATE, stateLock, pc, kind, result, pending, notes, lateCall,
                claimedFrom, ranLoad, waited, loads, failures, procVars>>

\* What copy_asset_file does with one asset (assets.rs:103-152): "copied" writes the whole
\* file; "not_opened" is the Err arm of AssetManager.open (assets.rs:150), which returns
\* Ok(()) with nothing written; "failed" is an error passed on by `?`.
CopyOutcomes == {"copied", "not_opened", "failed"}

\* assets.rs:122-143  the file of asset a after copy_asset_file: File::create and the
\* write loop; a copy that fails after File::create leaves the file cut short.
copy_asset_file(dir, a, o, created) ==
  IF o = "copied" THEN [dir EXCEPT ![a] = "full"]
  ELSE IF o = "failed" /\ created THEN [dir EXCEPT ![a] = "partial"]
  ELSE dir

\* assets.rs:34-37  let _ = remove_dir_all(&model_dir): the directory is emptied, or the
\* removal fails and its result is ignored.
Wiped(dir, removed) == IF removed THEN [a \in Assets |-> "absent"] ELSE dir

\* assets.rs:10-26  extract_assets is entered; the lookups of the files directory return
\* the path, or an error that is passed on before the marker is looked at.
ExtractCall ==
  /\ epc = "idle"
  /\ runs < MaxRuns
  /\ runs' = runs + 1
  /\ \/ epc' = "test" /\ extracted' = "none"
     \/ epc' = "idle" /\ extracted' = "Err"
  /\ UNCHANGED <<marker, model_dir, asset>>
  /\ UNCHANGED <<engineVars, callerVars, subVars, voiceVars, fileVars>>

\* assets.rs:28-39  the marker test: with the marker the call returns at once; without it
\* the directory is wiped and created anew.
MarkerTest ==
  /\ epc = "test"
  /\ IF marker
       THEN /\ epc' = "idle"
            /\ extracted' = "Ok"
            /\ UNCHANGED <<model_dir, asset>>
       ELSE \E removed \in BOOLEAN :
              /\ model_dir' = Wiped(model_dir, removed)
              /\ \/ epc' = "copy" /\ asset' = 1 /\ UNCHANGED extracted
                 \/ epc' = "idle" /\ extracted' = "Err" /\ UNCHANGED asset
  /\ UNCHANGED <<marker, runs>>
  /\ UNCHANGED <<engineVars, callerVars, subVars, voiceVars, fileVars>>

\* assets.rs:51, 60-101  copy_assets_recursively hands the next asset to copy_asset_file.
CopyAsset ==
  /\ epc = "copy"
  /\ \E o \in CopyOutcomes, created \in BOOLEAN :
       /\ model_dir' = copy_asset_file(model_dir, asset, o, created)
       /\ IF o = "failed"
            THEN epc' = "idle" /\ extracted' = "Err" /\ UNCHANGED asset
            ELSE /\ epc' = IF asset = NAssets THEN "mark" ELSE "copy"
                 /\ asset' = IF asset = NAssets THEN asset ELSE asset + 1
                 /\ UNCHANGED extracted
  /\ UNCHANGED <<marker, runs>>
  /\ UNCHANGED <<engineVars, callerVars, subVars, voiceVars, fileVars>>

\* assets.rs:53-57  std::fs::write(&marker_file, "ok")
WriteMarker ==
  /\ epc = "mark"
  /\ \/ marker' = TRUE /\ extracted' = "Ok"
     \/ UNCHANGED marker /\ extracted' = "Err"
  /\ epc' = "idle"
  /\ UNCHANGED <<model_dir, asset, runs>>
  /\ UNCHANGED <<engineVars, callerVars, subVars, voiceVars, fileVars>>

\* The process is killed while extract_assets runs; a file being written stays cut short.
Killed ==
  /\ epc # "idle"
  /\ epc' = "idle"
  /\ extracted' = "none"
  /\ \E created \in BOOLEAN :
       model_dir' = IF epc = "copy" THEN copy_asset_file(model_dir, asset, "failed", created)
                    ELSE model_dir
  /\ UNCHANGED <<marker, asset, runs>>
  /\ UNCHANGED <<engineVars, callerVars, subVars, voiceVars, fileVars>>

\* engine.rs:214-221  load_model_with_params rejects the files extract_assets returned and
\* do_load removes the marker.
RemoveMarker ==
  /\ epc = "idle"
  /\ extracted = "Ok"
  /\ marker
  /\ marker' = FALSE
  /\ extracted' = "none"
  /\ UNCHANGED <<model_dir, epc, asset, runs>>
  /\ UNCHANGED <<engineVars, callerVars, subVars, voiceVars, fileVars>>

NextAssets == ExtractCall \/ MarkerTest \/ CopyAsset \/ WriteMarker \/ Killed \/ RemoveMarker

\* A fresh installation: no marker and an empty model directory.
InitAssets == Init /\ ~marker

\* Successive loads of one installation: extract_assets step by step, the engine's
\* verdict on the files, and the death of the process.
SpecAssets == InitAssets /\ [][NextAssets]_vars

(* ============================ claims =================================== *)

Notified(t, msg) == \E i \in DOMAIN notes[t] : notes[t][i] = msg

ErrorStatuses == {ErrorStatus(m) : m \in {ASSET_ERROR, MODEL_ERROR, ATTACH_ERROR, WAIT_ERROR}}

ErrorCount(t) == Cardinality({i \in DOMAIN notes[t] : notes[t][i] \in ErrorStatuses})

\* The thread is inside do_load (engine.rs:193-228).
InDoLoad(t) == pc[t] \in {"do_load", "load_model"}

\* The thread is in the claim arm, between `*state = Loading` and the publication.
Claimed(t) == pc[t] \in {"attach", "do_load", "load_model", "publish"}

AllReturned == \A t \in Threads : pc[t] = "done"

\* C1: among the callers of ensure_loaded / ensure_loaded_from_thread at most one is
\* inside do_load at any time; LOAD_STATE is Loading exactly while one thread is in the
\* claim arm, that thread is the one that replaced Idle or Failed by Loading, and no
\* other thread takes LOAD_STATE out of Loading while it is there.
C1_SingleLoader ==
  /\ Cardinality({t \in Threads : InDoLoad(t)}) <= 1
  /\ \A t \in Threads : Claimed(t) => LOAD_STATE = Loading /\ claimedFrom[t] \in {"Idle", "Failed"}
  /\ \A t \in Threads : InDoLoad(t) => Claimed(t)
  /\ Cardinality({t \in Threads : Claimed(t)}) = (IF LOAD_STATE = Loading THEN 1 ELSE 0)

\* C1 witness: one thread loads while a second waits on the condvar and a third
\* queues for the coordination lock.
C1_Witness ==
  \E t, u, w \in Threads :
    /\ pc[t] = "load_model"
    /\ pc[u] = "waiting"
    /\ pc[w] = "lock"

\* C2 as stated: when all N callers started while LOAD_STATE was Idle and all have
\* returned, do_load ran exactly once and all returned Ok or all returned Err.
C2_ExactlyOnceSameOutcome ==
  (AllReturned /\ ~lateCall) =>
    /\ loads = 1
    /\ \A t, u \in Threads : (result[t] = "Ok") <=> (result[u] = "Ok")

\* C2 amended: for N callers that all started while LOAD_STATE was Idle and have all
\* returned, do_load ran at most once more than the number of failed load episodes; if
\* no episode failed it ran exactly once and every caller returned Ok.
C2_OncePerEpisode ==
  (AllReturned /\ ~lateCall) =>
    /\ loads <= failures + 1
    /\ failures = 0 => (loads = 1 /\ \A t \in Threads : result[t] = "Ok")

\* C2 witness: all callers started in Idle, one load ran and succeeded, one caller waited
\* for it, and all have returned.
C2_Witness ==
  /\ AllReturned /\ ~lateCall
  /\ loads = 1 /\ failures = 0
  /\ \E t \in Threads : Notified(t, "Waiting for model...") /\ result[t] = "Ok"

\* C3 as stated: a caller that finds Failed claims Loading and runs do_load again, and
\* nobody returns Ok while LOAD_STATE is Failed.
C3_RetryRunsDoLoad ==
  \A t \in Threads :
    (claimedFrom[t] = "Failed" /\ pc[t] \in {"publish", "done"}) => ranLoad[t]

\* C3 amended: a caller that reads Failed under the lock claims Loading and enters the
\* load path; it runs do_load again unless it is the loader of ensure_loaded_from_thread
\* and cannot attach to the JVM (then it publishes Failed without do_load); no caller
\* returns Ok while LOAD_STATE is Failed.
C3_FailedRetries ==
  /\ [][\A t \in Threads :
          (pc[t] = "locked" /\ pc'[t] # "locked" /\ LOAD_STATE.tag = "Failed") =>
             /\ LOAD_STATE' = Loading
             /\ claimedFrom'[t] = "Failed"
             /\ pc'[t] \in {"attach", "do_load"}]_vars
  /\ [][\A t \in Threads :
          (result[t] # "Ok" /\ result'[t] = "Ok") => LOAD_STATE.tag # "Failed"]_vars
  /\ [](\A t \in Threads :
          (claimedFrom[t] = "Failed" /\ pc[t] \in {"publish", "done"}) =>
             \/ ranLoad[t]
             \/ kind[t] = "ensure_loaded_from_thread" /\ pending[t] = ATTACH_ERROR)

\* C3 witness: a thread claimed from Failed, ran do_load and returned Ok.
C3_Witness ==
  \E t \in Threads :
    claimedFrom[t] = "Failed" /\ ranLoad[t] /\ pc[t] = "done" /\ result[t] = "Ok"

\* C9 as stated: no caller is still blocked in the wait after more than
\* LOAD_WAIT_TIMEOUT_SECS seconds.
C9_BoundedWait ==
  \A t \in Threads : pc[t] \in {"waiting", "woken"} => waited[t] <= LOAD_WAIT_TIMEOUT_SECS

\* C10 as stated: every call that returned Err delivered exactly one "Error: ..." status
\* to its notifier.
C10_OneErrorStatus ==
  \A t \in Threads : (pc[t] = "done" /\ result[t] # "Ok") => ErrorCount(t) = 1

(* ------------------------- live subtitle claims ------------------------ *)

\* The worker thread of session s is running.
WorkerAlive(s) == wpc[s] \in {"recv", "lock", "infer"}

\* Absolute start of a segment of the window the worker finished last.
AbsStart(s, sg) == wlast[s].start_time + sg.start

\* The segment's word is part of the text.
Appears(sg, text) == \E i \in DOMAIN sg.text, k \in DOMAIN text : sg.text[i] # " " /\ text[k] = sg.text[i]

QueuedIds(s) == [i \in DOMAIN chan[s] |-> chan[s][i].id]

\* C7: the worker of a session takes the windows in the order pushAudio sent them, one at
\* a time: the window it holds is the one sent right after the window it finished last,
\* the windows still queued are the ones sent after that, in order, and each outcome
\* (subtitle or none) belongs to the window following the previous outcome.
C7_Fifo ==
  /\ [](\A s \in Sessions : WorkerAlive(s) =>
          LET held == IF wcur[s].id # 0 THEN 1 ELSE 0
          IN /\ wcur[s].id # 0 => wcur[s].id = wlast[s].id + 1
             /\ Len(chan[s]) = enq[s] - wlast[s].id - held
             /\ QueuedIds(s) = [i \in DOMAIN chan[s] |-> wlast[s].id + held + i])
  /\ [][\A s \in Sessions :
          (WorkerAlive(s)' /\ wlast'[s] # wlast[s]) => wlast'[s].id = wlast[s].id + 1]_vars

\* The first window produced a subtitle, the second is inside transcribe_samples and the
\* third waits in the channel.
C7_Witness ==
  \E s \in Sessions :
    /\ wpc[s] = "infer"
    /\ wcur[s].id = 2
    /\ wlast[s].id = 1
    /\ wlast[s].called
    /\ QueuedIds(s) = <<3>>

\* Mean square of the buffer is at most the square of milli thousandths.
RmsAtMost(b, milli) == SumSq(b) <= milli * milli * BufLen(b)

\* The samples a pushAudio step appended, recovered from the step.
PushedLen == LIVE_STATE'.total_samples - LIVE_STATE.total_samples
PushedAmp == IF LIVE_STATE'.buffer = << >> THEN 0 ELSE LIVE_STATE'.buffer[Len(LIVE_STATE'.buffer)][2]

\* Two pushes of 36000 zero samples into a session left at the default interval.
ZeroScenario ==
  /\ LIVE_STATE.some
  /\ LIVE_STATE.update_interval = DEFAULT_UPDATE_INTERVAL
  /\ LIVE_STATE.total_samples = 72000
  /\ \A i \in DOMAIN LIVE_STATE.buffer : LIVE_STATE.buffer[i][2] = 0

\* C8: a pushAudio call that brings total_samples to last_process_sample + update_interval
\* or beyond while the RMS of the buffer is at or below the threshold enqueues nothing and
\* sets last_process_sample to total_samples; two pushes of 36000 zeros at the default
\* interval enqueue nothing.
C8_SilenceGate ==
  /\ [][(/\ pushes' = pushes + 1
         /\ LIVE_STATE'.total_samples >=
              LIVE_STATE.last_process_sample + LIVE_STATE.update_interval
         /\ RmsAtMost(Extend(LIVE_STATE.buffer, PushedLen, PushedAmp), SILENCE_RMS_MILLI))
        => (/\ chan' = chan
            /\ enq' = enq
            /\ LIVE_STATE'.last_process_sample = LIVE_STATE'.total_samples)]_vars
  /\ [](ZeroScenario => enq[LIVE_STATE.session] = 0 /\ chan[LIVE_STATE.session] = << >>)

\* The two pushes of zeros have happened while the worker was there to receive.
C8_Witness ==
  /\ ZeroScenario
  /\ LIVE_STATE.last_process_sample = 72000
  /\ BufLen(LIVE_STATE.buffer) = OVERLAP_SAMPLES
  /\ wpc[LIVE_STATE.session] = "recv"
  /\ enq[LIVE_STATE.session] = 0

(* ---------------------------- process-wide claims ---------------------- *)

\* C4: at most one transcribe_samples call executes at any time, whichever threads
\* (subtitle worker, one-shot threads) are transcribing.
C4_OneTranscription == Cardinality(inference) <= 1

\* A direct loader thread is extracting assets or constructing the engine.
DirectLoading(d) == dpc[d] \in {"extract", "load"}

\* C11: at most one model load (asset extraction + engine construction) executes at any
\* time, counting the coordinator's do_load and the IME and MainActivity loader threads.
C11_OneLoadProcessWide ==
  Cardinality({t \in Threads : InDoLoad(t)}) + Cardinality({d \in DirectLoaders : DirectLoading(d)}) <= 1

\* C12: once GLOBAL_ENGINE holds an engine instance, no step replaces it by another
\* instance or empties it.
C12_PopulatedOnce ==
  [][GLOBAL_ENGINE # 0 => GLOBAL_ENGINE' = GLOBAL_ENGINE]_vars

(* ------------------------ load coordinator claims ---------------------- *)

\* C13: when the loading thread's load ends with the error m (do_load failed, or the loader
\* of ensure_loaded_from_thread could not attach), the step that publishes it sets
\* LoadState to Failed(m), wakes every thread blocked in the wait and makes the loader
\* return Err(m); LoadState never returns to Idle once it has left it.
C13_FailurePublished ==
  /\ [][\A t \in Threads :
          (pc[t] = "publish" /\ pc'[t] = "done" /\ pending[t] # "Ok")
            => /\ LOAD_STATE' = Failed(pending[t])
               /\ result'[t] = pending[t]
               /\ \A u \in Threads : pc[u] = "waiting" => pc'[u] = "woken"]_vars
  /\ [][LOAD_STATE' = Idle => LOAD_STATE = Idle]_vars

\* One loader's do_load failed; a second loader retried, could not attach and published
\* that failure, waking a waiter.
C13_Witness ==
  \E t, u, w \in Threads :
    /\ pc[t] = "done" /\ result[t] \in {ASSET_ERROR, MODEL_ERROR}
    /\ pc[u] = "done" /\ result[u] = ATTACH_ERROR
    /\ LOAD_STATE = Failed(ATTACH_ERROR)
    /\ pc[w] = "woken"

\* The thread found LoadState = Loading and is in, or just past, the wait.
InWait(t) == pc[t] \in {"waiting", "woken", "postwait"}

\* C14: a caller that finds Loading has been notified "Waiting for model..." while it
\* waits, leaves the wait only when LoadState is no longer Loading, and then returns Ok
\* with a "Ready" notification if and only if the engine handle is populated, and
\* otherwise Err("Model failed to load") with the matching Error notification.
C14_WaiterVerdict ==
  /\ [](\A t \in Threads : InWait(t) => Notified(t, "Waiting for model..."))
  /\ [][\A t \in Threads :
          (pc[t] = "woken" /\ pc'[t] = "postwait") => LOAD_STATE.tag # "Loading"]_vars
  /\ [][\A t \in Threads :
          (pc[t] = "postwait" /\ pc'[t] = "done")
            => IF GLOBAL_ENGINE # 0
                 THEN result'[t] = "Ok" /\ notes'[t] = Append(notes[t], "Ready")
                 ELSE /\ result'[t] = WAIT_ERROR
                      /\ notes'[t] = Append(notes[t], ErrorStatus(WAIT_ERROR))]_vars

\* C15: the waiters of a Loading episode are all released when it resolves: when a caller
\* starts a new episode (LoadState goes from not Loading to Loading), no thread that
\* waited on an earlier episode is still inside the wait.
C15_ReleasedBeforeNextEpisode ==
  [][(LOAD_STATE.tag # "Loading" /\ LOAD_STATE'.tag = "Loading")
       => \A u \in Threads : pc[u] \notin {"waiting", "woken"}]_vars

\* C16: a waiter that leaves the wait while LoadState holds Failed(reason) returns an error
\* carrying that same reason, and never returns success.
C16_WaiterSeesReason ==
  [][\A t \in Threads :
       (pc[t] = "postwait" /\ pc'[t] = "done" /\ LOAD_STATE.tag = "Failed")
         => result'[t] = LOAD_STATE.reason]_vars

\* C17: once LoadState is Done it stays Done, and a call that starts its first check while
\* LoadState is Done returns Ok in that step with a "Ready" notification, never taking the
\* state lock, waiting or entering do_load.
C17_DoneIsFinal ==
  /\ [][LOAD_STATE.tag = "Done" => LOAD_STATE' = LOAD_STATE]_vars
  /\ [][\A t \in Threads :
          (LOAD_STATE.tag = "Done" /\ pc[t] = "fast" /\ pc'[t] # "fast")
            => /\ pc'[t] = "done"
               /\ result'[t] = "Ok"
               /\ notes'[t] = Append(notes[t], "Ready")]_vars

\* C18: in every state of a live-subtitle session the processed mark never exceeds the
\* number of samples seen: last_process_sample <= total_samples.
C18_MarkWithinTotal ==
  LIVE_STATE.some => LIVE_STATE.last_process_sample <= LIVE_STATE.total_samples

\* C18 witness: a window was processed, more audio arrived after it, and the interval was
\* changed by setUpdateInterval.
C18_Witness ==
  /\ LIVE_STATE.some
  /\ LIVE_STATE.last_process_sample > 0
  /\ LIVE_STATE.last_process_sample < LIVE_STATE.total_samples
  /\ LIVE_STATE.update_interval # DEFAULT_UPDATE_INTERVAL

\* C19: a window that fails (no engine loaded, or transcribe_samples returns an error) ends
\* alone: the step that drops it leaves the worker receiving, the later windows queued in
\* order, the commit cursor where it was, and the engine slot and LoadState untouched.
C19_FailureIsLocal ==
  [][\A s \in Sessions :
       (WorkerAlive(s) /\ wlast'[s] # wlast[s] /\ wlast'[s].id # 0 /\ ~wlast'[s].ok)
         => /\ wpc'[s] = "recv"
            /\ last_committed_end'[s] = last_committed_end[s]
            /\ QueuedIds(s)' = [i \in 1..(enq[s] - wlast'[s].id) |-> wlast'[s].id + i]
            /\ GLOBAL_ENGINE' = GLOBAL_ENGINE
            /\ LOAD_STATE' = LOAD_STATE]_vars

\* C19 witness: the first window produced a subtitle and moved the cursor, the second
\* failed inside transcribe_samples, and the worker is transcribing the third with the
\* cursor the first one left.
C19_Witness ==
  \E s \in Sessions :
    /\ wpc[s] = "infer"
    /\ wcur[s].id = 3
    /\ wlast[s].id = 2
    /\ ~wlast[s].ok
    /\ wlast[s].cursor > 0
    /\ last_committed_end[s] = wlast[s].cursor

\* C20: every window the streaming worker fails on (no engine loaded, or transcribe_samples
\* returned an error) has a status notification sent for it.
C20_FailureReported ==
  \A s \in Sessions : (wlast[s].id # 0 /\ ~wlast[s].ok) => wlast[s].status # << >>

\* C22: once a window has advanced the commit cursor, a segment of a later window whose
\* absolute start equals the cursor is filtered out: its word is not in the emitted text.
C22_AtCursorFiltered ==
  \A s \in Sessions : \A i \in DOMAIN wlast[s].segments :
    (wlast[s].cursor > 0 /\ AbsStart(s, wlast[s].segments[i]) = wlast[s].cursor)
      => ~Appears(wlast[s].segments[i], wlast[s].emitted)

\* C23: windower state and commit cursor belong to one session. A session starts with
\* total_samples, last_process_sample and the cursor at zero and with an empty buffer and
\* channel; pushAudio without a session changes nothing; a window enters only the channel
\* of the session that is live, and a cursor moves only when the worker of its own session
\* finishes a window taken from that session's channel.
C23_NoCarryover ==
  /\ [][(LIVE_STATE'.some /\ LIVE_STATE'.session # LIVE_STATE.session)
          => LET n == LIVE_STATE'.session
             IN /\ LIVE_STATE'.total_samples = 0
                /\ LIVE_STATE'.last_process_sample = 0
                /\ LIVE_STATE'.buffer = << >>
                /\ last_committed_end'[n] = 0
                /\ chan'[n] = << >>
                /\ enq'[n] = 0]_vars
  /\ [][(~LIVE_STATE.some /\ pushes' # pushes)
          => /\ LIVE_STATE' = LIVE_STATE
             /\ chan' = chan
             /\ enq' = enq
             /\ last_committed_end' = last_committed_end]_vars
  /\ [][\A s \in Sessions :
          /\ Len(chan'[s]) > Len(chan[s]) => (LIVE_STATE.some /\ LIVE_STATE.session = s)
          /\ (wcur'[s] # wcur[s] /\ wcur'[s].id # 0)
               => (chan[s] # << >> /\ wcur'[s] = Head(chan[s]))
          /\ last_committed_end'[s] # last_committed_end[s]
               => (wcur[s].id # 0 \/ wpc'[s] = "exit")]_vars

\* C23 witness: the first session committed text and was cleaned up with a window still
\* queued; the second session has had its first window processed against a cursor of
\* zero while the first session's worker is transcribing its leftover window.
C23_Witness ==
  /\ LIVE_STATE.some
  /\ LIVE_STATE.session = 2
  /\ wpc[1] = "infer"
  /\ last_committed_end[1] > 0
  /\ wlast[2].id = 1
  /\ wlast[2].cursor = 0
  /\ wlast[2].called

\* The worker of session s is inside transcribe_samples or has windows waiting.
WorkerBusy(s) == wpc[s] = "infer" \/ (WorkerAlive(s) /\ chan[s] # << >>)

\* C24: pushAudio never waits on transcription: whenever a worker is inside
\* transcribe_samples or has windows queued, a pushAudio call can run to its end, and a
\* call that runs then appends its samples and, when a window is due and audible, adds the
\* window to the queue whatever the queue already holds.
C24_PushNeverWaits ==
  /\ []((pushes < MaxPushes /\ \E s \in Sessions : WorkerBusy(s))
          => \A in \in LoudInputs : ENABLED PushAudio(in[1], in[2]))
  /\ [][(pushes' # pushes /\ LIVE_STATE.some /\ WorkerBusy(LIVE_STATE.session))
          => /\ LIVE_STATE'.total_samples > LIVE_STATE.total_samples
             /\ (LIVE_STATE'.last_process_sample # LIVE_STATE.last_process_sample
                   => Len(chan'[LIVE_STATE.session]) = Len(chan[LIVE_STATE.session]) + 1)]_vars

\* C24 witness: the worker is inside transcribe_samples on the first window, the second
\* window waits in the channel, and pushAudio has just added the third behind it.
C24_Witness ==
  \E s \in Sessions :
    /\ wpc[s] = "infer"
    /\ wcur[s].id = 1
    /\ QueuedIds(s) = <<2, 3>>

\* The segments of the window finished last whose absolute start is at or after the
\* cursor minus the margin, in the order reported.
Kept(s) ==
  SelectSeq(wlast[s].segments,
            LAMBDA sg : AbsStart(s, sg) >= wlast[s].cursor - MARGIN_SAMPLES)

RECURSIVE Spaced(_)
\* The texts of the segments with one blank between consecutive ones.
Spaced(segments) ==
  IF segments = << >> THEN << >>
  ELSE IF Len(segments) = 1 THEN segments[1].text
  ELSE segments[1].text \o <<" ">> \o Spaced(Tail(segments))

\* The text from its first to its last character that is not a blank.
Stripped(text) ==
  LET solid == {i \in DOMAIN text : text[i] # " "}
  IN IF solid = {} THEN << >>
     ELSE SubSeq(text, CHOOSE i \in solid : \A k \in solid : i <= k,
                       CHOOSE i \in solid : \A k \in solid : i >= k)

\* C25: for a window whose result has timed segments the emitted text is exactly the texts
\* of the segments that start at or after the cursor (as it was before the window) minus
\* the 0.05 s margin, joined by single blanks in the order reported, and trimmed.
C25_EmittedText ==
  \A s \in Sessions :
    (wlast[s].id # 0 /\ wlast[s].ok /\ wlast[s].timed)
      => wlast[s].emitted = Stripped(Spaced(Kept(s)))

\* C25 witness: a window processed against an advanced cursor reported two segments that
\* both passed the filter, one of them inside the margin, and both words were emitted.
C25_Witness ==
  \E s \in Sessions :
    /\ wlast[s].cursor > 0
    /\ Len(wlast[s].segments) = 2
    /\ AbsStart(s, wlast[s].segments[1]) < wlast[s].cursor
    /\ wlast[s].emitted = <<"j", " ", "b">>

\* The larger of the cursor before the window finished last and the absolute ends of the
\* segments that passed the filter.
KeptEnd(s) ==
  LET ends == {wlast[s].cursor}
                \cup {wlast[s].start_time + Kept(s)[i].end : i \in DOMAIN Kept(s)}
  IN CHOOSE e \in ends : \A x \in ends : e >= x

\* C26: after a window with timed segments, if a segment passed the filter the cursor is
\* the larger of its previous value and the latest absolute end among the segments that
\* passed, and one subtitle callback was made; if none passed, the cursor is unchanged and
\* neither a subtitle nor a status was emitted.
C26_CursorAfterTimed ==
  \A s \in Sessions :
    (wlast[s].id # 0 /\ wlast[s].ok /\ wlast[s].timed)
      => IF Kept(s) # << >>
           THEN last_committed_end[s] = KeptEnd(s) /\ wlast[s].called
           ELSE /\ last_committed_end[s] = wlast[s].cursor
                /\ ~wlast[s].called
                /\ wlast[s].status = << >>

C28_WindowCheck ==
  [][(pushes' # pushes /\ LIVE_STATE.some)
       => LET appended == Extend(LIVE_STATE.buffer, PushedLen, PushedAmp)
          IN IF LIVE_STATE'.total_samples - LIVE_STATE.last_process_sample
                  >= LIVE_STATE.update_interval
               THEN /\ LIVE_STATE'.last_process_sample = LIVE_STATE'.total_samples
                    /\ BufLen(LIVE_STATE'.buffer) <= OVERLAP_SAMPLES
                    /\ LIVE_STATE'.buffer =
                         IF BufLen(appended) > OVERLAP_SAMPLES
                           THEN TakeLast(appended, OVERLAP_SAMPLES) ELSE appended
               ELSE /\ LIVE_STATE'.buffer = appended
                    /\ LIVE_STATE'.last_process_sample = LIVE_STATE.last_process_sample
                    /\ chan' = chan
                    /\ enq' = enq]_vars

\* C28 witness: a check has sent a window and cut the buffer back to 48000 samples, and a
\* later push was appended without a check.
C28_Witness ==
  /\ LIVE_STATE.some
  /\ enq[LIVE_STATE.session] >= 1
  /\ LIVE_STATE.last_process_sample = 72000
  /\ LIVE_STATE.total_samples = 88000
  /\ BufLen(LIVE_STATE.buffer) = OVERLAP_SAMPLES + 16000

RECURSIVE Upto(_, _)
\* The first n samples of a run-length coded stream.
Upto(h, n) ==
  IF n = 0 \/ h = << >> THEN << >>
  ELSE IF h[1][1] >= n THEN << <<n, h[1][2]>> >>
  ELSE << h[1] >> \o Upto(Tail(h), n - h[1][1])

\* Stream position of the first sample the session buffer holds.
BufStart(st) == st.total_samples - BufLen(st.buffer)

\* C29: the buffer of a live session is exactly the most recent buffer.len() samples of
\* the stream pushed into it; every window queued for the session starts at the stream
\* position of its first sample and holds the samples from there on; over the pushes of a
\* session the start of the buffer never moves back, a window sent by a push starts where
\* the buffer started, and a checked buffer starts no later than the end of the buffer
\* checked before it.
C29_BufferIsStreamTail ==
  /\ [](LIVE_STATE.some =>
          /\ BufLen(LIVE_STATE.heard) = LIVE_STATE.total_samples
          /\ BufLen(LIVE_STATE.buffer) <= LIVE_STATE.total_samples
          /\ LIVE_STATE.buffer = TakeLast(LIVE_STATE.heard, BufLen(LIVE_STATE.buffer))
          /\ \A i \in DOMAIN chan[LIVE_STATE.session] :
               LET w == chan[LIVE_STATE.session][i]
               IN w.samples = TakeLast(Upto(LIVE_STATE.heard, w.start_time + BufLen(w.samples)),
                                       BufLen(w.samples))
          /\ \A i, k \in DOMAIN chan[LIVE_STATE.session] :
               i <= k => chan[LIVE_STATE.session][i].start_time
                           <= chan[LIVE_STATE.session][k].start_time)
  /\ [][(pushes' # pushes /\ LIVE_STATE.some)
          => LET s == LIVE_STATE.session
             IN /\ BufStart(LIVE_STATE') >= BufStart(LIVE_STATE)
                /\ LIVE_STATE'.last_process_sample # LIVE_STATE.last_process_sample
                     => BufStart(LIVE_STATE) <= LIVE_STATE.last_process_sample
                /\ enq'[s] # enq[s]
                     => chan'[s][Len(chan'[s])].start_time = BufStart(LIVE_STATE)]_vars

\* C29 witness: the buffer has been cut back, so it no longer starts at the beginning of
\* the stream, and a window that starts after the beginning of the stream is queued behind
\* one that starts at it.
C29_Witness ==
  /\ LIVE_STATE.some
  /\ BufStart(LIVE_STATE) > 0
  /\ \E i, k \in DOMAIN chan[LIVE_STATE.session] :
       /\ i < k
       /\ chan[LIVE_STATE.session][i].start_time = 0
       /\ chan[LIVE_STATE.session][k].start_time > 0

(* ------------------------ voice session claims ------------------------- *)

\* The thread is a transcription thread spawned by stop_recording.
Job(t) == tbuf[t] # << >>

\* The transcription thread has returned.
Returned(t) == pc[t] = "ended" \/ (pc[t] = "done" /\ result[t] # "Ok")

JobErrors == ErrorStatuses \cup {ErrorStatus(INFERENCE_ERROR), ErrorStatus(NOT_LOADED_ERROR)}

\* The outcome reached the notifier: the text, or an Error status.
Delivered(t) ==
  \E i \in DOMAIN notes[t] : notes[t][i] = "onTextTranscribed" \/ notes[t][i] \in JobErrors

\* C21: a transcription submitted by stop_recording keeps its samples whatever is called
\* afterwards, and when its thread returns the text has been delivered or an Error status
\* reported; a live-subtitle worker terminates only with its channel drained.
C21_SubmittedRunsToOutcome ==
  /\ [][\A t \in Threads : Job(t) => tbuf'[t] = tbuf[t]]_vars
  /\ [](\A t \in Threads : (Job(t) /\ Returned(t)) => Delivered(t))
  /\ [][\A s \in Sessions : (wpc[s] # "exit" /\ wpc'[s] = "exit") => chan[s] = << >>]_vars

(* ---------------------- double-checked locking -------------------------- *)

\* C30: no caller of ensure_loaded / ensure_loaded_from_thread stores Loading or enters
\* do_load while the engine handle is populated; a caller that holds the coordination lock
\* and finds the handle populated returns Ok from the re-check.
C30_NoLoadWhenPopulated ==
  /\ [][(LOAD_STATE'.tag = "Loading" /\ LOAD_STATE.tag # "Loading") => GLOBAL_ENGINE = 0]_vars
  /\ [][\A t \in Threads : (InDoLoad(t)' /\ ~InDoLoad(t)) => GLOBAL_ENGINE = 0]_vars
  /\ [][\A t \in Threads :
          (pc[t] = "locked" /\ pc'[t] # "locked" /\ GLOBAL_ENGINE # 0)
            => (pc'[t] = "done" /\ result'[t] = "Ok")]_vars

(* --------------------------- install and publish ------------------------ *)

\* C31: in every reachable state LoadState = Done implies that the engine handle is
\* populated; the handle changes only in the step in which a loader's
\* load_model_with_params returned Ok, and it then holds that new engine; and, the
\* coordinator being the only loader, a populated handle implies that LoadState is
\* Loading or Done.
C31_InstalledBeforePublished ==
  /\ [](LOAD_STATE.tag = "Done" => GLOBAL_ENGINE # 0)
  /\ [][GLOBAL_ENGINE' # GLOBAL_ENGINE
          => \E t \in Threads : /\ pc[t] = "load_model"
                                /\ pending'[t] = "Ok"
                                /\ GLOBAL_ENGINE' = installs']_vars
  /\ [](GLOBAL_ENGINE # 0 => LOAD_STATE.tag \in {"Loading", "Done"})

\* A first load failed and was published as Failed; the retry installed the engine and
\* published Done.
C31_Witness ==
  /\ LOAD_STATE = Done
  /\ GLOBAL_ENGINE # 0
  /\ failures >= 1
  /\ \E t \in Threads : pc[t] = "done" /\ result[t] = "Ok" /\ claimedFrom[t] = "Failed"

(* -------------------------- one-shot outcomes --------------------------- *)

\* The notifications of thread t that end a request: the text, or an Error status.
Terminals(t) ==
  {i \in DOMAIN notes[t] : notes[t][i] = "onTextTranscribed" \/ notes[t][i] \in JobErrors}

\* C32: a one-shot request that reached its background thread has, when the thread has
\* returned, exactly one terminal notification: onTextTranscribed, or one Error status;
\* never both and never neither.
C32_OneTerminalNotification ==
  \A t \in Threads : (Job(t) /\ Returned(t)) => Cardinality(Terminals(t)) = 1

(* --------------------------- subtitle workers --------------------------- *)

\* The worker of session s holds a window it received, or is about to receive one.
Consuming(s) == wpc[s] \in {"lock", "infer"} \/ (wpc[s] = "recv" /\ chan[s] # << >>)

\* C33: whatever the sequence of initNative and cleanupNative calls (initNative again
\* without cleanupNative included), at most one transcription worker is consuming windows
\* process-wide at any time.
C33_OneWorker == Cardinality({s \in Sessions : Consuming(s)}) <= 1

(* --------------------------- populated for good ------------------------- *)

\* C34: whenever a call of ensure_loaded / ensure_loaded_from_thread has returned Ok the
\* engine handle is populated; a populated handle stays populated; and no one-shot thread
\* reports "Error: model not loaded".
C34_OkMeansPopulated ==
  /\ [](\A t \in Threads : result[t] = "Ok" => GLOBAL_ENGINE # 0)
  /\ [][GLOBAL_ENGINE # 0 => GLOBAL_ENGINE' # 0]_vars
  /\ [](\A t \in Threads : ~Notified(t, ErrorStatus(NOT_LOADED_ERROR)))

\* A transcription thread found the handle empty, waited in ensure_loaded for the session's
\* loader, returned Ok, found the engine in the handle and transcribed with it.
C34_Witness ==
  \E t \in Threads :
    /\ Job(t)
    /\ result[t] = "Ok"
    /\ ~ranLoad[t]
    /\ Notified(t, "Waiting for model...")
    /\ pc[t] \in {"transcribe", "ended"}
    /\ teng[t] # 0

(* ------------------------------ termination ----------------------------- *)

\* C35: under a fair scheduler, with every do_load terminating and finitely many callers,
\* every call of ensure_loaded / ensure_loaded_from_thread that has started eventually
\* returns.
C35_EveryCallReturns == \A t \in Threads : (pc[t] # "idle") ~> (pc[t] = "done")

\* Every caller has returned; a load had failed, and a caller that waited for a load
\* returned Ok.
C35_Witness ==
  /\ AllReturned
  /\ failures >= 1
  /\ \E t \in Threads : Notified(t, "Waiting for model...") /\ result[t] = "Ok"

(* ---------------------------- extraction marker ------------------------- *)

\* The model directory holds every asset, whole.
Complete == \A a \in Assets : model_dir[a] = "full"

\* C36: extract_assets returns without extracting exactly when the marker exists; the
\* marker is written only by the step that follows the last asset copy of the run; and
\* whenever the marker exists the model directory holds a complete extraction.
C36_MarkerMeansComplete ==
  /\ [](marker => Complete)
  /\ [][(epc = "test" /\ extracted' = "Ok") => marker]_vars
  /\ [][marker => model_dir' = model_dir]_vars
  /\ [][(marker' /\ ~marker) => (epc = "mark" /\ asset = NAssets)]_vars

C38_WaitsForLoader ==
  \A t \in ImeThreads :
    Notified(t, ErrorStatus(IME_NOT_LOADED_ERROR)) => GLOBAL_ENGINE = 0

(* ------------------------------ buffer bound ---------------------------- *)

\* Samples pushed since the last processed window.
Backlog(st) == st.total_samples - st.last_process_sample

\* max(update_interval, 1)
AtLeastOne(n) == IF n > 1 THEN n ELSE 1

\* The step is a pushAudio call into a live session.
Pushed == pushes' = pushes + 1 /\ LIVE_STATE.some

\* The step is a pushAudio call that sent a window.
Sent == Pushed /\ enq'[LIVE_STATE.session] = enq[LIVE_STATE.session] + 1

\* The window a Sent step appended to the channel.
SentWindow == chan'[LIVE_STATE.session][Len(chan'[LIVE_STATE.session])]

\* C39 as stated: the buffer holds at most the overlap plus the backlog; after a pushAudio
\* call the backlog is below max(update_interval, 1); and a window sent by the call has at
\* most 48000 + max(update_interval, 1) - 1 + (length of the call's input) samples, for the
\* interval in effect during the call.
C39_WindowBoundedByInterval ==
  /\ [](LIVE_STATE.some => BufLen(LIVE_STATE.buffer) <= OVERLAP_SAMPLES + Backlog(LIVE_STATE))
  /\ [][Pushed => Backlog(LIVE_STATE') < AtLeastOne(LIVE_STATE.update_interval)]_vars
  /\ [][Sent => BufLen(SentWindow.samples)
                  <= OVERLAP_SAMPLES + AtLeastOne(LIVE_STATE.update_interval) - 1
                       + PushedLen]_vars

\* C39 amended: the buffer holds at most the overlap plus the backlog; after a pushAudio
\* call the backlog is below max(update_interval, 1) for the interval in effect during the
\* call; and a window sent by a call has at most 48000 + (the backlog the call found) +
\* (length of the call's input) samples.
C39_BufferBounded ==
  /\ [](LIVE_STATE.some => BufLen(LIVE_STATE.buffer) <= OVERLAP_SAMPLES + Backlog(LIVE_STATE))
  /\ [][Pushed => Backlog(LIVE_STATE') < AtLeastOne(LIVE_STATE.update_interval)]_vars
  /\ [][Sent => BufLen(SentWindow.samples)
                  <= OVERLAP_SAMPLES + Backlog(LIVE_STATE) + PushedLen]_vars

\* A backlog was built up under the default interval, setUpdateInterval then set the
\* interval to 0, and the next call sent a window longer than 48000 + 1 - 1 + its input.
C39_Witness ==
  /\ LIVE_STATE.some
  /\ LIVE_STATE.update_interval = 0
  /\ Backlog(LIVE_STATE) = 0
  /\ \E i \in DOMAIN chan[LIVE_STATE.session] :
       BufLen(chan[LIVE_STATE.session][i].samples) = OVERLAP_SAMPLES + 20000

\* What a rejecting call leaves alone: the threads and the samples moved into them, the
\* engine guards, and the load coordinator.
RejectedQuietly ==
  UNCHANGED <<pc, tbuf, fromFile, inference, teng, GLOBAL_ENGINE, installs, LOAD_STATE,
              stateLock, loads, marker>>

StopsEmpty == StopRecording /\ is_empty(RECOG_STATE.audio_buffer)

\* C40: stop_recording with an empty recorded buffer and transcribeAudio with length 0 each
\* send exactly one "Error: ..." status, spawn no transcription thread, take no engine
\* guard and start no model load.
C40_EmptyInputRejected ==
  /\ [][StopsEmpty => vstatus' = <<NO_AUDIO>> /\ RejectedQuietly]_vars
  /\ [][TranscribeAudio(<< >>) => fstatus' = <<NO_AUDIO_DATA>> /\ RejectedQuietly]_vars

\* C40 amended: the same, for a transcribeAudio call made while the activity's state is
\* present; without the state the call returns having sent nothing.
C40_EmptyInputRejectedWithState ==
  /\ [][StopsEmpty => vstatus' = <<NO_AUDIO>> /\ RejectedQuietly]_vars
  /\ [][TranscribeAudio(<< >>) =>
          /\ fstatus' = IF FILE_STATE THEN <<NO_AUDIO_DATA>> ELSE << >>
          /\ RejectedQuietly]_vars

\* transcribeAudio has rejected a length of 0 while a thread could still be spawned, and
\* no transcription thread exists.
C40_Witness ==
  /\ FILE_STATE
  /\ fstatus = <<NO_AUDIO_DATA>>
  /\ fromFile = {}
  /\ \E t \in VoiceThreads : pc[t] = "idle"
  /\ \A t \in Threads : tbuf[t] = << >>

====
